---- MODULE Spec2Model ----
(***************************************************************************)
(* Deterministic evidence analyzer of the Oracle upgrade automation        *)
(* factory (aws-deploy/lambdas/deterministic/app.py).                      *)
(*                                                                         *)
(* Spec      the tail of lambda_handler: the analysed LogResults and the   *)
(*           ValidationResult are classified (_classify_status), scored    *)
(*           (_risk_score) and banded (_risk_level).                       *)
(* SpecMono  _risk_score applied to two inputs, to compare their results.  *)
(* SpecPick  _pick_best_impdp_log over a storage listing.                  *)
(* SpecDp    _analyze_log over log texts (completion markers, error codes).*)
(* SpecProof _parse_validation over the two proof texts.                   *)
(* SpecHandler  lambda_handler, step by step, over an event and a store,   *)
(*           invoked twice with the same event.                            *)
(* SpecRender   _render_executive_md over summaries.                       *)
(* SpecExcerpt  _extract_excerpts over texts, codes, context and budget.   *)
(* SpecChain    lambda_handler, followed by the invocations that the       *)
(*           notifications of the objects it wrote start.                  *)
(* SpecGen   the three handlers that call the generative-text service.     *)
(*                                                                         *)
(* Texts are strings; a character is a string of length 1.                 *)
(*                                                                         *)
(* Optional values (Python None) are sequences of length 0 or 1.           *)
(***************************************************************************)
EXTENDS Integers, Sequences, FiniteSets, TLC

VARIABLES
    pc,                 \* position in the handler / selector
    log_results,        \* list[LogResult] of the allowlisted logs
    impdp_lr,           \* LogResult | None of the selected import log
    impdp_log_count,    \* number of import-attempt candidates
    validation,         \* dict returned by _parse_validation
    overall_status,     \* Optional status string
    status_reasons,     \* list of reasons
    risk_score_value,   \* Optional int
    risk_factors,       \* list of factor records
    risk_level,         \* Optional level string
    alt,                \* SpecMono: the second input (Optional record)
    alt_risk,           \* SpecMono: _risk_score of the second input (Optional)
    args,               \* SpecExcerpt: Optional arguments of _extract_excerpts
    objs,               \* SpecPick: resp["Contents"], the listing
    candidates,         \* SpecPick: list of (object, retry number)
    pick,               \* SpecPick: Optional return value of the selector
    event,              \* the invocation's event
    fault,              \* the storage call that fails for a reason other than absence
    store,              \* the objects of the run in the bucket
    trigger,            \* Optional (bucket, key, run_prefix) of lines 613-614
    metrics,            \* Optional parsed metrics document
    compile_warnings,   \* list of ORA-39082 findings
    evidence_excerpts,  \* excerpts of the selected import log, by code
    summary,            \* Optional summary dict
    ops,                \* the storage calls made so far, in order
    result,             \* Optional outcome of the invocation
    invocation          \* number of the current invocation

vars == <<pc, log_results, impdp_lr, impdp_log_count, validation, overall_status,
          status_reasons, risk_score_value, risk_factors, risk_level,
          alt, alt_risk, args, objs, candidates, pick,
          event, fault, store, trigger, metrics, compile_warnings,
          evidence_excerpts, summary, ops, result, invocation>>

statusVars == <<log_results, impdp_lr, impdp_log_count, validation, overall_status,
                status_reasons, risk_score_value, risk_factors, risk_level>>
monoVars == <<alt, alt_risk, args>>
pickVars == <<objs, candidates, pick>>
handlerVars == <<event, fault, store, trigger, metrics, compile_warnings,
                 evidence_excerpts, summary, ops, result, invocation>>

(***************************************************************************)
(* Optional values                                                         *)
(***************************************************************************)
None == << >>
Some(v) == <<v>>
Val(o) == o[1]

(***************************************************************************)
(* Bounds of the model                                                     *)
(***************************************************************************)
\* largest number of import attempts listed for one run
MaxAttempts == 2
\* largest number of INVALID rows in the invalid-object proof
MaxInvalid == 1
\* largest number of objects in a storage listing
MaxObjs == 3
\* number of distinct LastModified instants
MaxTime == 3
\* largest number of lines of a log text or of a proof text
MaxLines == 2
\* largest number of objects listed under the migration prefix of a run
MaxListed == 2
\* largest number of compilation-warning findings of a summary
MaxWarnings == 21
\* rows of the longest invalid-object proof
MaxRows == 21
\* largest context_lines of a call of _extract_excerpts
MaxContext == 2
\* largest max_total_lines of a call of _extract_excerpts
MaxBudget == 6
\* largest number of codes of a call of _extract_excerpts
MaxCodes == 2
\* largest number of invocations that follow one another
MaxChain == 3

(***************************************************************************)
(* Character sequences                                                     *)
(***************************************************************************)
\* "impdp_"
IMPDP_ == <<"i", "m", "p", "d", "p", "_">>
\* ".log"
DOT_LOG == <<".", "l", "o", "g">>
\* "impdp_a.log": no retry token
KEY_A == <<"i", "m", "p", "d", "p", "_", "a", ".", "l", "o", "g">>
\* "impdp_retry.log": a retry token without digits
KEY_RETRY == <<"i", "m", "p", "d", "p", "_", "r", "e", "t", "r", "y", ".", "l", "o", "g">>
\* "old/impdp_RETRY01.log": a retry token with digits, in upper case, in a
\* sub-directory
KEY_OLD_RETRY01 == <<"o", "l", "d", "/", "i", "m", "p", "d", "p", "_", "R", "E", "T", "R", "Y", "0", "1", ".", "l", "o", "g">>
\* "expdp_retry9.log": not an import log
KEY_EXPDP == <<"e", "x", "p", "d", "p", "_", "r", "e", "t", "r", "y", "9", ".", "l", "o", "g">>

(***************************************************************************)
(* Severity taxonomy and weights                                           *)
(***************************************************************************)
FATAL_ORA_without_27037 == {"ORA-39000", "ORA-31640"}

FATAL_ORA == {"ORA-39000", "ORA-31640", "ORA-27037"}

WARN_ORA == {"ORA-31642", "ORA-39127", "ORA-44002", "ORA-06550", "ORA-39082"}

INFO_ORA == {"ORA-06512"}

RISK_WEIGHTS_fatal_30 ==
    [missing_required_log |-> 15, missing_impdp_log |-> 25,
     impdp_retry_present |-> 10, fatal_ora_present |-> 30,
     warn_ora_present |-> 15, dp_completion_marker_missing |-> 10,
     expdp_completed_with_errors |-> 10,
     validation_invalid_objects_present |-> 25,
     validation_orders_count_missing |-> 5]

RISK_WEIGHTS ==
    [missing_required_log |-> 15, missing_impdp_log |-> 25,
     impdp_retry_present |-> 10, fatal_ora_present |-> 50,
     warn_ora_present |-> 15, dp_completion_marker_missing |-> 10,
     expdp_completed_with_errors |-> 10,
     validation_invalid_objects_present |-> 25,
     validation_orders_count_missing |-> 5]

ALLOWLIST_RELATIVE_KEYS ==
    <<"02-precheck/precheck.log", "03-migration/expdp_legacy_18c.log",
      "04-validation/validation_23c.log">>

(***************************************************************************)
(* LogResult (the text field is not read by scoring or classification and  *)
(* is left out of the record).                                             *)
(***************************************************************************)
LogResult(key_rel, found, ora_counts, dp_state, dp_error_count) ==
    [key_rel |-> key_rel, found |-> found, ora_counts |-> ora_counts,
     dp_state |-> dp_state, dp_error_count |-> dp_error_count]

\* the empty dict {}
EmptyCounts == [c \in {} |-> 0]

\* _analyze_log when the object is absent
MissingLog(rel_key) == LogResult(rel_key, FALSE, EmptyCounts, "NONE", None)

\* `lr and lr.found` for an Optional LogResult
Found(lr) == lr # None /\ Val(lr).found

(***************************************************************************)
(* _parse_validation: the status derived from the two parsed proofs        *)
(***************************************************************************)
validation_status_trusts_zero(invalid_count, orders_count) ==
    IF invalid_count # None
    THEN IF Val(invalid_count) > 0 THEN "WARN" ELSE "PASS"
    ELSE "UNKNOWN"

validation_status(invalid_count, orders_count) ==
    IF invalid_count # None
    THEN IF Val(invalid_count) > 0
         THEN "WARN"
         ELSE IF orders_count # None THEN "PASS" ELSE "WARN"
    ELSE "UNKNOWN"

ValidationResult(invalid_count, orders_count) ==
    [status |-> validation_status(invalid_count, orders_count),
     invalid_objects_count |-> invalid_count,
     orders_count |-> orders_count]

(***************************************************************************)
(* _risk_level                                                             *)
(***************************************************************************)
_risk_level_strict(score) ==
    IF score > 70 THEN "HIGH" ELSE IF score > 35 THEN "MEDIUM" ELSE "LOW"

_risk_level(score) ==
    IF score >= 70 THEN "HIGH" ELSE IF score >= 35 THEN "MEDIUM" ELSE "LOW"

(***************************************************************************)
(* _risk_score: acc is the pair of accumulators (score, factors); every    *)
(* step is one `if` of the function, in source order.                      *)
(***************************************************************************)
Factor(name, evidence) ==
    [factor |-> name, weight |-> RISK_WEIGHTS[name], evidence |-> evidence]

Add(acc, name, evidence) ==
    [score |-> acc.score + RISK_WEIGHTS[name],
     factors |-> Append(acc.factors, Factor(name, evidence))]

\* imp_ora = (impdp.ora_counts if (impdp and impdp.found) else {}) or {}
imp_ora_of(impdp) == IF Found(impdp) THEN Val(impdp).ora_counts ELSE EmptyCounts

fatal_codes_of(impdp) == {c \in DOMAIN imp_ora_of(impdp) : c \in FATAL_ORA}

warn_codes_of(impdp) == {c \in DOMAIN imp_ora_of(impdp) : c \in WARN_ORA}

RECURSIVE score_required_logs(_, _, _)
score_required_logs(acc, required_logs, i) ==
    IF i > Len(required_logs)
    THEN acc
    ELSE score_required_logs(
             IF ~required_logs[i].found
             THEN Add(acc, "missing_required_log", required_logs[i].key_rel)
             ELSE acc,
             required_logs, i + 1)

score_missing_impdp(acc, impdp) ==
    IF impdp = None \/ ~Val(impdp).found
    THEN Add(acc, "missing_impdp_log", "No impdp log selected/found under 03-migration/")
    ELSE acc

\* the retry factor from the first attempt on
score_retry_from_one(acc, impdp_count) ==
    IF impdp_count >= 1
    THEN Add(acc, "impdp_retry_present", impdp_count)
    ELSE acc

score_retry(acc, impdp_count) ==
    IF impdp_count > 1
    THEN Add(acc, "impdp_retry_present", impdp_count)
    ELSE acc

score_ora_both(acc, impdp) ==
    LET a == IF fatal_codes_of(impdp) # {}
             THEN Add(acc, "fatal_ora_present", fatal_codes_of(impdp))
             ELSE acc
    IN IF warn_codes_of(impdp) # {}
       THEN Add(a, "warn_ora_present", warn_codes_of(impdp))
       ELSE a

score_ora(acc, impdp) ==
    IF fatal_codes_of(impdp) # {}
    THEN Add(acc, "fatal_ora_present", fatal_codes_of(impdp))
    ELSE IF warn_codes_of(impdp) # {}
         THEN Add(acc, "warn_ora_present", warn_codes_of(impdp))
         ELSE acc

score_marker(acc, impdp) ==
    IF Found(impdp) /\ Val(impdp).dp_state = "NONE" /\ fatal_codes_of(impdp) = {}
    THEN Add(acc, "dp_completion_marker_missing", Val(impdp).key_rel)
    ELSE acc

score_expdp(acc, expdp) ==
    IF Found(expdp) /\ Val(expdp).dp_state = "COMPLETED_WITH_ERRORS"
    THEN Add(acc, "expdp_completed_with_errors",
             [log |-> Val(expdp).key_rel, error_count |-> Val(expdp).dp_error_count])
    ELSE acc

score_invalid(acc, v) ==
    IF v.invalid_objects_count # None /\ Val(v.invalid_objects_count) > 0
    THEN Add(acc, "validation_invalid_objects_present", Val(v.invalid_objects_count))
    ELSE acc

score_orders_forgets_weight(acc, v) ==
    IF v.orders_count = None
    THEN [acc EXCEPT !.factors = Append(@, Factor("validation_orders_count_missing",
              "orders_count_proof missing or unparseable"))]
    ELSE acc

score_orders(acc, v) ==
    IF v.orders_count = None
    THEN Add(acc, "validation_orders_count_missing",
             "orders_count_proof missing or unparseable")
    ELSE acc

\* min(100, score)
clamp_none(score) == score

clamp(score) == IF score < 100 THEN score ELSE 100

_risk_score(required_logs, impdp, impdp_count, expdp, v) ==
    LET a0 == [score |-> 0, factors |-> << >>]
        a1 == score_required_logs(a0, required_logs, 1)
        a2 == score_missing_impdp(a1, impdp)
        a3 == score_retry(a2, impdp_count)
        a4 == score_ora(a3, impdp)
        a5 == score_marker(a4, impdp)
        a6 == score_expdp(a5, expdp)
        a7 == score_invalid(a6, v)
        a8 == score_orders(a7, v)
    IN [score |-> clamp(a8.score), factors |-> a8.factors]

(***************************************************************************)
(* _classify_status                                                        *)
(***************************************************************************)
Reason(msg, arg) == [msg |-> msg, arg |-> arg]

MultipleAttempts(n) == Reason("Multiple impdp attempts detected (count=N).", Some(n))
FatalDetected == Reason("Fatal ORA codes detected in impdp.", None)
ValidationWarn ==
    Reason("Post-validation indicates WARN conditions (invalid objects present).", None)
ImpdpErrors == Reason("impdp completed with errors.", None)
ExpdpErrors == Reason("expdp completed with errors.", None)
NotDefinitive ==
    Reason("Evidence present but not definitive SUCCESS for all phases.", None)

\* any(c in FATAL_ORA for c in imp_ora.keys())
has_fatal(impdp) == \E c \in DOMAIN imp_ora_of(impdp) : c \in FATAL_ORA

completed_with_errors(lr) == Found(lr) /\ Val(lr).dp_state = "COMPLETED_WITH_ERRORS"

pass_condition_ignores_validation(expdp, impdp, v) ==
    /\ Found(impdp) /\ Val(impdp).dp_state = "SUCCESS"
    /\ Found(expdp) /\ Val(expdp).dp_state = "SUCCESS"

\* PASS without the export phase
pass_condition_ignores_export(expdp, impdp, v) ==
    /\ Found(impdp) /\ Val(impdp).dp_state = "SUCCESS"
    /\ v.status = "PASS"

pass_condition(expdp, impdp, v) ==
    /\ Found(impdp) /\ Val(impdp).dp_state = "SUCCESS"
    /\ Found(expdp) /\ Val(expdp).dp_state = "SUCCESS"
    /\ v.status = "PASS"

\* the decision list after the fatal test
classify_tail(expdp, impdp, v, r2) ==
    IF completed_with_errors(impdp)
    THEN [status |-> "WARN", reasons |-> Append(r2, ImpdpErrors)]
    ELSE IF completed_with_errors(expdp)
    THEN [status |-> "WARN", reasons |-> Append(r2, ExpdpErrors)]
    ELSE IF pass_condition(expdp, impdp, v)
    THEN [status |-> "PASS", reasons |-> r2]
    ELSE [status |-> "WARN", reasons |-> Append(r2, NotDefinitive)]

_classify_status_fatal_late(expdp, impdp, v, impdp_count) ==
    LET r1 == IF impdp_count > 1 THEN <<MultipleAttempts(impdp_count)>> ELSE << >>
        r2 == IF v.status = "WARN" THEN Append(r1, ValidationWarn) ELSE r1
    IN IF completed_with_errors(impdp)
       THEN [status |-> "WARN", reasons |-> Append(r2, ImpdpErrors)]
       ELSE IF has_fatal(impdp)
       THEN [status |-> "FAIL", reasons |-> Append(r1, FatalDetected)]
       ELSE classify_tail(expdp, impdp, v, r2)

_classify_status(expdp, impdp, v, impdp_count) ==
    LET r1 == IF impdp_count > 1 THEN <<MultipleAttempts(impdp_count)>> ELSE << >>
    IN IF has_fatal(impdp)
       THEN [status |-> "FAIL", reasons |-> Append(r1, FatalDetected)]
       ELSE LET r2 == IF v.status = "WARN" THEN Append(r1, ValidationWarn) ELSE r1
            IN classify_tail(expdp, impdp, v, r2)

(***************************************************************************)
(* lambda_handler: expdp_lr = next((x for x in log_results                 *)
(*                      if x.key_rel.endswith("expdp_legacy_18c.log")), None) *)
(* Of the keys a LogResult can carry, only ALLOWLIST_RELATIVE_KEYS[2] ends *)
(* with that suffix.                                                       *)
(***************************************************************************)
expdp_of(results) ==
    LET hits == {i \in 1..Len(results) : results[i].key_rel = ALLOWLIST_RELATIVE_KEYS[2]}
    IN IF hits = {} THEN None
       ELSE Some(results[CHOOSE i \in hits : \A j \in hits : i <= j])

(***************************************************************************)
(* Inputs: what the first half of lambda_handler can hand to the           *)
(* classifier and the scorer.                                              *)
(***************************************************************************)
\* the error codes that occur in the logs of the model
OraInLogs == {"ORA-39000", "ORA-31640", "ORA-27037", "ORA-39082", "ORA-06512"}

\* a dict of occurrence counts with the given keys
Counts(keys) == [c \in keys |-> 1]

\* the pairs _dp_completion_state_and_errors returns
DpOutcomes ==
    {<<"SUCCESS", Some(0)>>, <<"COMPLETED_WITH_ERRORS", Some(2)>>,
     <<"COMPLETED_WITH_ERRORS", None>>, <<"COMPLETED", None>>, <<"NONE", None>>}

SelectedImpdpRel == "03-migration/impdp_legacy_23c.log"

\* _analyze_log / lambda_handler lines 645-647 for a log that was read
FoundLogs(rel_key, oraSets, outcomes) ==
    {LogResult(rel_key, TRUE, Counts(k), o[1], o[2]) : k \in oraSets, o \in outcomes}

\* an allowlisted log whose content neither function reads
OtherLog(rel_key, found) ==
    IF found THEN LogResult(rel_key, TRUE, EmptyCounts, "NONE", None)
    ELSE MissingLog(rel_key)

OptionalInts(max) == {None} \cup {Some(n) : n \in 0..max}

\* log_results: one LogResult per allowlisted key, in the allowlist's order
LogResults(pre, e, post) ==
    <<OtherLog(ALLOWLIST_RELATIVE_KEYS[1], pre), e,
      OtherLog(ALLOWLIST_RELATIVE_KEYS[3], post)>>

\* the export log: absent, or read
ExpdpResults ==
    {MissingLog(ALLOWLIST_RELATIVE_KEYS[2])}
        \cup FoundLogs(ALLOWLIST_RELATIVE_KEYS[2], {{}, {"ORA-39000"}}, DpOutcomes)

\* the key sets of the import log's error-code mapping
ImpdpOraSets ==
    {{}, {"ORA-39000"}, {"ORA-31640"}, {"ORA-27037"}, {"ORA-39082"}, {"ORA-06512"},
     {"ORA-39000", "ORA-27037"}, {"ORA-31640", "ORA-39082"},
     {"ORA-27037", "ORA-06512"}, {"ORA-39082", "ORA-06512"}, OraInLogs}

\* (impdp_lr, impdp_log_count): nothing selected, or the selected log among
\* 1..MaxAttempts candidates
ImpdpSelections ==
    {[lr |-> None, n |-> 0]}
        \cup {[lr |-> Some(l), n |-> k] :
                l \in FoundLogs(SelectedImpdpRel, ImpdpOraSets,
                                DpOutcomes \ {<<"COMPLETED_WITH_ERRORS", None>>}),
                k \in 1..MaxAttempts}

Validations ==
    {ValidationResult(inv, ord) :
        inv \in OptionalInts(MaxInvalid), ord \in {None, Some(0), Some(50000)}}

\* the smaller input space of SpecMono
MonoExpdpResults ==
    {MissingLog(ALLOWLIST_RELATIVE_KEYS[2])}
        \cup FoundLogs(ALLOWLIST_RELATIVE_KEYS[2], {{}},
                       {<<"SUCCESS", Some(0)>>, <<"COMPLETED_WITH_ERRORS", Some(2)>>})

MonoImpdpSelections ==
    {[lr |-> None, n |-> 0]}
        \cup {[lr |-> Some(l), n |-> k] :
                l \in FoundLogs(SelectedImpdpRel, {{}, {"ORA-39000"}, {"ORA-39082"}},
                                {<<"SUCCESS", Some(0)>>, <<"NONE", None>>}),
                k \in {1, 2}}

MonoValidations ==
    {ValidationResult(inv, ord) : inv \in {None, Some(1)}, ord \in {None, Some(50000)}}

Load(results, sel, v) ==
    /\ log_results = results
    /\ impdp_lr = sel.lr
    /\ impdp_log_count = sel.n
    /\ validation = v
    /\ overall_status = None
    /\ status_reasons = << >>
    /\ risk_score_value = None
    /\ risk_factors = << >>
    /\ risk_level = None

IdlePick == objs = << >> /\ candidates = << >> /\ pick = None
IdleMono == alt = None /\ alt_risk = None /\ args = None
IdleHandler ==
    /\ event = None /\ fault = "none" /\ store = None /\ trigger = None
    /\ metrics = None /\ compile_warnings = << >> /\ evidence_excerpts = << >>
    /\ summary = None /\ ops = << >> /\ result = None /\ invocation = 0

(***************************************************************************)
(* Spec: lambda_handler lines 666-710                                      *)
(***************************************************************************)
Init ==
    /\ pc = "inputs"
    /\ \E pre \in BOOLEAN, post \in BOOLEAN, e \in ExpdpResults,
          sel \in ImpdpSelections, v \in Validations :
            Load(LogResults(pre, e, post), sel, v)
    /\ IdleMono
    /\ IdlePick
    /\ IdleHandler

\* overall_status, status_reasons = _classify_status(...)
Classify ==
    /\ pc = "inputs"
    /\ LET r == _classify_status(expdp_of(log_results), impdp_lr, validation,
                                 impdp_log_count)
       IN /\ overall_status' = Some(r.status)
          /\ status_reasons' = r.reasons
    /\ pc' = "classified"
    /\ UNCHANGED <<log_results, impdp_lr, impdp_log_count, validation,
                   risk_score_value, risk_factors, risk_level, monoVars, pickVars,
                   handlerVars>>

\* risk_score_value, risk_factors = _risk_score(...); the summary's risk level
Score ==
    /\ pc = "classified"
    /\ LET r == _risk_score(log_results, impdp_lr, impdp_log_count,
                            expdp_of(log_results), validation)
       IN /\ risk_score_value' = Some(r.score)
          /\ risk_factors' = r.factors
          /\ risk_level' = Some(_risk_level(r.score))
    /\ pc' = "scored"
    /\ UNCHANGED <<log_results, impdp_lr, impdp_log_count, validation,
                   overall_status, status_reasons, monoVars, pickVars, handlerVars>>

Next == Classify \/ Score

Spec == Init /\ [][Next]_vars

(***************************************************************************)
(* SpecMono: _risk_score on two inputs                                     *)
(***************************************************************************)
InitMono ==
    /\ pc = "first"
    /\ \E pre \in BOOLEAN, e \in MonoExpdpResults, sel \in MonoImpdpSelections,
          v \in MonoValidations :
            Load(LogResults(pre, e, TRUE), sel, v)
    /\ IdleMono
    /\ IdlePick
    /\ IdleHandler

ScoreBoth ==
    /\ pc = "first"
    /\ \E pre \in BOOLEAN, e \in MonoExpdpResults, sel \in MonoImpdpSelections,
          v \in MonoValidations :
         LET second == LogResults(pre, e, TRUE)
             r1 == _risk_score(log_results, impdp_lr, impdp_log_count,
                               expdp_of(log_results), validation)
             r2 == _risk_score(second, sel.lr, sel.n, expdp_of(second), v)
         IN /\ alt' = Some([log_results |-> second, impdp_lr |-> sel.lr,
                            impdp_log_count |-> sel.n, validation |-> v])
            /\ alt_risk' = Some(r2)
            /\ risk_score_value' = Some(r1.score)
            /\ risk_factors' = r1.factors
    /\ pc' = "compared"
    /\ UNCHANGED <<log_results, impdp_lr, impdp_log_count, validation,
                   overall_status, status_reasons, risk_level, args, pickVars,
                   handlerVars>>

NextMono == ScoreBoth

SpecMono == InitMono /\ [][NextMono]_vars

(***************************************************************************)
(* _pick_best_impdp_log.  A key is the sequence of its characters; the     *)
(* listing holds the part of each key after its Prefix                     *)
(* (run_prefix + MIGRATION_PREFIX_REL), which ends with "/", so that        *)
(* key.split("/")[-1] is the last segment of that part.                    *)
(***************************************************************************)
Digits == {"0", "1", "2", "3", "4", "5", "6", "7", "8", "9"}

DigitValue(c) ==
    CASE c = "0" -> 0 [] c = "1" -> 1 [] c = "2" -> 2 [] c = "3" -> 3 [] c = "4" -> 4
      [] c = "5" -> 5 [] c = "6" -> 6 [] c = "7" -> 7 [] c = "8" -> 8 [] c = "9" -> 9

\* case folding of re.IGNORECASE, for the letters of "retry"
Lower(c) ==
    CASE c = "R" -> "r" [] c = "E" -> "e" [] c = "T" -> "t" [] c = "Y" -> "y"
      [] OTHER -> c

StartsWith(s, p) == Len(s) >= Len(p) /\ SubSeq(s, 1, Len(p)) = p
EndsWith(s, p) == Len(s) >= Len(p) /\ SubSeq(s, Len(s) - Len(p) + 1, Len(s)) = p

\* key.split("/")[-1]
BaseName(key) ==
    LET slashes == {i \in 1..Len(key) : key[i] = "/"}
    IN IF slashes = {} THEN key
       ELSE SubSeq(key, (CHOOSE i \in slashes : \A j \in slashes : j <= i) + 1, Len(key))

\* int(digits)
RECURSIVE ParseInt(_)
ParseInt(ds) ==
    IF ds = << >> THEN 0
    ELSE 10 * ParseInt(SubSeq(ds, 1, Len(ds) - 1)) + DigitValue(ds[Len(ds)])

\* the longest run of digits of s that starts at position i: (\d+)?
RECURSIVE DigitRun(_, _)
DigitRun(s, i) ==
    IF i <= Len(s) /\ s[i] \in Digits THEN <<s[i]>> \o DigitRun(s, i + 1) ELSE << >>

\* "retry", in any case, at position i of s
RetryAt(s, i) ==
    /\ Lower(s[i]) = "r" /\ Lower(s[i + 1]) = "e" /\ Lower(s[i + 2]) = "t"
    /\ Lower(s[i + 3]) = "r" /\ Lower(s[i + 4]) = "y"

\* IMPDP_RETRY_RE.search(filename): the leftmost "retry", any case
_impdp_retry_number(filename) ==
    LET hits == {i \in 1..(Len(filename) - 4) : RetryAt(filename, i)}
    IN IF hits = {} THEN 0
       ELSE LET m == CHOOSE i \in hits : \A j \in hits : i <= j
                group1 == DigitRun(filename, m + 5)
            IN IF group1 = << >> THEN 1 ELSE ParseInt(group1)

\* base.startswith("impdp_") and base.endswith(".log")
is_candidate(key) ==
    /\ StartsWith(BaseName(key), IMPDP_)
    /\ EndsWith(BaseName(key), DOT_LOG)

\* the first loop: candidates.append((o, rn)) for the matching objects
RECURSIVE filter_candidates(_)
filter_candidates(os) ==
    IF os = << >> THEN << >>
    ELSE (IF is_candidate(Head(os).Key)
          THEN <<[obj |-> Head(os), rn |-> _impdp_retry_number(BaseName(Head(os).Key))]>>
          ELSE << >>) \o filter_candidates(Tail(os))

\* the second loop: one meta record per candidate
meta_of(cands) ==
    [i \in 1..Len(cands) |->
        [key |-> cands[i].obj.Key, base_name |-> BaseName(cands[i].obj.Key),
         retry_number |-> cands[i].rn,
         last_modified |-> <<"isoformat", cands[i].obj.LastModified>>]]

\* key=lambda x: (x[1], x[0]["LastModified"])
sort_key_time_first(c) == <<c.obj.LastModified, c.rn>>

sort_key(c) == <<c.rn, c.obj.LastModified>>

\* tuple comparison a <= b of two pairs
PairLeq(a, b) == a[1] < b[1] \/ (a[1] = b[1] /\ a[2] <= b[2])

\* list.sort is stable: an element goes after the elements that are not greater
RECURSIVE insert_sorted(_, _)
insert_sorted(sorted, c) ==
    IF sorted = << >> THEN <<c>>
    ELSE IF PairLeq(sort_key(sorted[Len(sorted)]), sort_key(c))
         THEN Append(sorted, c)
         ELSE Append(insert_sorted(SubSeq(sorted, 1, Len(sorted) - 1), c),
                     sorted[Len(sorted)])

RECURSIVE sort_candidates(_)
sort_candidates(cands) ==
    IF cands = << >> THEN << >>
    ELSE insert_sorted(sort_candidates(SubSeq(cands, 1, Len(cands) - 1)),
                       cands[Len(cands)])

\* max(rn for _, rn in candidates)
max_rn_of(cands) ==
    LET rns == {cands[i].rn : i \in 1..Len(cands)}
    IN CHOOSE m \in rns : \A n \in rns : n <= m

selection_reason_of_above_one(max_rn) ==
    IF max_rn > 1 THEN "filename_retry_number_then_lastmodified" ELSE "lastmodified"

selection_reason_of(max_rn) ==
    IF max_rn > 0 THEN "filename_retry_number_then_lastmodified" ELSE "lastmodified"

PickResult(key, count, meta, reason) ==
    [key |-> key, count |-> count, meta |-> meta, selection_reason |-> reason]

(***************************************************************************)
(* SpecPick: the listings are sequences of at most MaxObjs objects with    *)
(* distinct keys, in any order, modified at instants 1..MaxTime.           *)
(***************************************************************************)
ListedKeys ==
    {KEY_A, KEY_RETRY, KEY_OLD_RETRY01, KEY_EXPDP}

S3Objects == {[Key |-> k, LastModified |-> t] : k \in ListedKeys, t \in 1..MaxTime}

RECURSIVE Listings(_)
Listings(n) ==
    IF n = 0 THEN {<< >>}
    ELSE LET shorter == Listings(n - 1)
         IN shorter \cup
            {Append(l, o) : l \in {x \in shorter : Len(x) = n - 1},
                            o \in S3Objects}

DistinctKeys(l) == \A i, j \in 1..Len(l) : l[i].Key = l[j].Key => i = j

InitPick ==
    /\ pc = "list"
    /\ objs \in {l \in Listings(MaxObjs) : DistinctKeys(l)}
    /\ candidates = << >>
    /\ pick = None
    /\ Load(LogResults(TRUE, MissingLog(ALLOWLIST_RELATIVE_KEYS[2]), TRUE),
            [lr |-> None, n |-> 0], ValidationResult(None, None))
    /\ IdleMono
    /\ IdleHandler

\* if not candidates: return None, 0, meta, "no_candidates"
PickNoCandidates ==
    /\ pc = "list"
    /\ filter_candidates(objs) = << >>
    /\ candidates' = << >>
    /\ pick' = Some(PickResult(None, 0, << >>, "no_candidates"))
    /\ pc' = "picked"
    /\ UNCHANGED <<objs, statusVars, monoVars, handlerVars>>

\* sort, take the last, report the reason
PickSelect ==
    /\ pc = "list"
    /\ LET cands == filter_candidates(objs)
           sorted == sort_candidates(cands)
       IN /\ cands # << >>
          /\ candidates' = sorted
          /\ pick' = Some(PickResult(Some(sorted[Len(sorted)].obj.Key), Len(sorted),
                                     meta_of(cands),
                                     selection_reason_of(max_rn_of(sorted))))
    /\ pc' = "picked"
    /\ UNCHANGED <<objs, statusVars, monoVars, handlerVars>>

NextPick == PickNoCandidates \/ PickSelect

SpecPick == InitPick /\ [][NextPick]_vars

(***************************************************************************)
(* Texts.  The functions below read a text character by character, as the  *)
(* regular expressions of the source do.                                   *)
(***************************************************************************)
\* text[i - 1] of Python, as a string of length 1
Ch(s, i) == SubSeq(s, i, i)

LOWERCASE == "abcdefghijklmnopqrstuvwxyz"
UPPERCASE == "ABCDEFGHIJKLMNOPQRSTUVWXYZ"

\* \w of the regular expressions
WordChars ==
    LET w == LOWERCASE \o UPPERCASE \o "0123456789_"
    IN {Ch(w, i) : i \in 1..Len(w)}

\* \s of the regular expressions; the characters that str.strip removes
Whitespace == {" ", "\t", "\n", "\r", "\f"}

\* case folding of re.IGNORECASE, str.upper and str.lower, for one character
LowerOf ==
    "A" :> "a" @@ "B" :> "b" @@ "C" :> "c" @@ "D" :> "d" @@ "E" :> "e" @@ "F" :> "f"
        @@ "G" :> "g" @@ "H" :> "h" @@ "I" :> "i" @@ "J" :> "j" @@ "K" :> "k" @@ "L" :> "l"
        @@ "M" :> "m" @@ "N" :> "n" @@ "O" :> "o" @@ "P" :> "p" @@ "Q" :> "q" @@ "R" :> "r"
        @@ "S" :> "s" @@ "T" :> "t" @@ "U" :> "u" @@ "V" :> "v" @@ "W" :> "w" @@ "X" :> "x"
        @@ "Y" :> "y" @@ "Z" :> "z"

lower(c) == IF c \in DOMAIN LowerOf THEN LowerOf[c] ELSE c

\* \b between positions i - 1 and i of s
Boundary(s, i) ==
    (i - 1 >= 1 /\ i - 1 <= Len(s) /\ Ch(s, i - 1) \in WordChars)
        # (i >= 1 /\ i <= Len(s) /\ Ch(s, i) \in WordChars)

\* the literal lit (in lower case) at position i of s, in any case
MatchCI(s, i, lit) ==
    /\ i >= 1 /\ i + Len(lit) - 1 <= Len(s)
    /\ \A k \in 1..Len(lit) : lower(Ch(s, i + k - 1)) = Ch(lit, k)

\* the position after the longest run of characters of class cls from i
RECURSIVE RunEnd(_, _, _)
RunEnd(s, i, cls) ==
    IF i <= Len(s) /\ Ch(s, i) \in cls THEN RunEnd(s, i + 1, cls) ELSE i

\* int(s) for a string of digits
RECURSIVE int(_)
int(s) ==
    IF s = "" THEN 0
    ELSE 10 * int(SubSeq(s, 1, Len(s) - 1)) + DigitValue(Ch(s, Len(s)))

\* the least element of a non-empty set of positions: where re.search matches
Leftmost(hits) == CHOOSE i \in hits : \A j \in hits : i <= j

\* DP_SUCCESS_RE: \bsuccessfully completed\b
DP_SUCCESS_RE(s) ==
    {i \in 1..Len(s) :
        /\ Boundary(s, i) /\ MatchCI(s, i, "successfully completed")
        /\ Boundary(s, i + Len("successfully completed"))}

\* the end of "\bcompleted with\s+" matched at i, or 0
CompletedWithEnd(s, i) ==
    IF Boundary(s, i) /\ MatchCI(s, i, "completed with")
    THEN LET a == i + Len("completed with")
             b == RunEnd(s, a, Whitespace)
         IN IF b > a THEN b ELSE 0
    ELSE 0

\* group(1) of DP_COMPLETED_WITH_ERRORS_RE matched at i: <<digits>>, or << >>
CompletedWithN(s, i) ==
    LET b == CompletedWithEnd(s, i)
        c == RunEnd(s, b, Digits)
        d == RunEnd(s, c, Whitespace)
    IN IF b > 0 /\ c > b /\ d > c /\ MatchCI(s, d, "error")
       THEN <<SubSeq(s, b, c - 1)>> ELSE << >>

\* DP_COMPLETED_WITH_ERRORS_RE: \bcompleted with\s+(\d+)\s+error
DP_COMPLETED_WITH_ERRORS_RE(s) == {i \in 1..Len(s) : CompletedWithN(s, i) # << >>}

\* DP_COMPLETED_WITH_ERRORS_RE2: \bcompleted with\s+error
DP_COMPLETED_WITH_ERRORS_RE2(s) ==
    {i \in 1..Len(s) :
        LET b == CompletedWithEnd(s, i) IN b > 0 /\ MatchCI(s, b, "error")}

\* DP_COMPLETED_RE: \bcompleted\b
DP_COMPLETED_RE(s) ==
    {i \in 1..Len(s) :
        /\ Boundary(s, i) /\ MatchCI(s, i, "completed")
        /\ Boundary(s, i + Len("completed"))}

_dp_completion_state_and_errors_completed_first(text) ==
    IF DP_COMPLETED_RE(text) # {} THEN <<"COMPLETED", None>>
    ELSE IF DP_SUCCESS_RE(text) # {} THEN <<"SUCCESS", Some(0)>>
    ELSE <<"NONE", None>>

_dp_completion_state_and_errors(text) ==
    IF DP_SUCCESS_RE(text) # {} THEN <<"SUCCESS", Some(0)>>
    ELSE LET m == DP_COMPLETED_WITH_ERRORS_RE(text)
         IN IF m # {}
            THEN <<"COMPLETED_WITH_ERRORS", Some(int(CompletedWithN(text, Leftmost(m))[1]))>>
            ELSE IF DP_COMPLETED_WITH_ERRORS_RE2(text) # {}
                 THEN <<"COMPLETED_WITH_ERRORS", None>>
                 ELSE IF DP_COMPLETED_RE(text) # {}
                      THEN <<"COMPLETED", None>>
                      ELSE <<"NONE", None>>

\* ORA_RE: \b(ORA-\d{5})\b, the positions of its matches
ORA_RE(s) ==
    {i \in 1..Len(s) :
        /\ Boundary(s, i) /\ MatchCI(s, i, "ora-")
        /\ RunEnd(s, i + Len("ora-"), Digits) >= i + Len("ora-00000")
        /\ Boundary(s, i + Len("ora-00000"))}

\* code.upper() of the match at i
OraCodeAt(s, i) == "ORA-" \o SubSeq(s, i + Len("ora-"), i + Len("ora-00000") - 1)

\* as _parse_ora_counts, without the code.upper() of line 177
_parse_ora_counts_as_written(text) ==
    LET hits == ORA_RE(text)
    IN [cu \in {SubSeq(text, i, i + Len("ora-00000") - 1) : i \in hits} |->
            Cardinality({i \in hits : SubSeq(text, i, i + Len("ora-00000") - 1) = cu})]

_parse_ora_counts(text) ==
    LET hits == ORA_RE(text)
    IN [cu \in {OraCodeAt(text, i) : i \in hits} |->
            Cardinality({i \in hits : OraCodeAt(text, i) = cu})]

\* _analyze_log, given what _s3_try_get_text returned
_analyze_log(rel_key, text) ==
    IF text = None THEN LogResult(rel_key, FALSE, EmptyCounts, "NONE", None)
    ELSE LET dp == _dp_completion_state_and_errors(Val(text))
         IN LogResult(rel_key, TRUE, _parse_ora_counts(Val(text)), dp[1], dp[2])

(***************************************************************************)
(* Validation proofs                                                       *)
(***************************************************************************)
\* text.splitlines(), for lines that end with "\n"
RECURSIVE splitlines(_)
splitlines(text) ==
    IF text = "" THEN << >>
    ELSE LET nl == {i \in 1..Len(text) : Ch(text, i) = "\n"}
         IN IF nl = {} THEN <<text>>
            ELSE <<SubSeq(text, 1, Leftmost(nl) - 1)>>
                    \o splitlines(SubSeq(text, Leftmost(nl) + 1, Len(text)))

\* ln.strip()
strip(ln) ==
    LET ink == {i \in 1..Len(ln) : Ch(ln, i) \notin Whitespace}
    IN IF ink = {} THEN ""
       ELSE SubSeq(ln, Leftmost(ink), CHOOSE i \in ink : \A j \in ink : j <= i)

\* re.split(r"\s{2,}", s): the fields of s after position from - 1, where the
\* field being read starts at from and has been read up to i - 1
RECURSIVE split_2_spaces(_, _, _)
split_2_spaces(s, from, i) ==
    IF i > Len(s) THEN <<SubSeq(s, from, Len(s))>>
    ELSE LET e == RunEnd(s, i, Whitespace)
         IN IF e - i >= 2
            THEN <<SubSeq(s, from, i - 1)>> \o split_2_spaces(s, e, e)
            ELSE split_2_spaces(s, from, IF e > i THEN e ELSE i + 1)

\* the test of line 331 on a stripped, non-empty line
is_header_or_separator(s) ==
    \/ MatchCI(s, 1, "owner")
    \/ \A i \in 1..Len(s) : Ch(s, i) \in {"-", " "}

\* status.upper() == "INVALID"
is_invalid(status) == Len(status) = Len("invalid") /\ MatchCI(status, 1, "invalid")

\* the loop of lines 326-345: the objects of the INVALID rows, in order
RECURSIVE invalid_rows(_)
invalid_rows(lines) ==
    IF lines = << >> THEN << >>
    ELSE LET s == strip(Head(lines))
             parts == split_2_spaces(s, 1, 1)
         IN (IF s # "" /\ ~is_header_or_separator(s) /\ Len(parts) >= 4
                /\ is_invalid(parts[4])
             THEN <<[owner |-> parts[1], object_name |-> parts[2],
                     object_type |-> parts[3], status |-> parts[4]]>>
             ELSE << >>) \o invalid_rows(Tail(lines))

_parse_invalid_object_proof(text) ==
    IF text = "" THEN [count |-> None, objects |-> << >>]
    ELSE LET objects == invalid_rows(splitlines(text))
         IN [count |-> Some(Len(objects)), objects |-> objects]

\* INTEGER_LINE_RE.match(ln): ^\s*(\d{1,12})\s*$, group(1) as <<digits>> or << >>
INTEGER_LINE_RE(ln) ==
    LET s == strip(ln)
    IN IF s # "" /\ Len(s) <= 12 /\ RunEnd(s, 1, Digits) = Len(s) + 1
       THEN <<s>> ELSE << >>

_parse_orders_count_proof(text) ==
    LET lines == splitlines(text)
        hits == {i \in 1..Len(lines) : INTEGER_LINE_RE(lines[i]) # << >>}
    IN IF hits = {} THEN None
       ELSE Some(int(INTEGER_LINE_RE(lines[Leftmost(hits)])[1]))

\* `txt or ""`
or_empty(txt) == IF txt = None THEN "" ELSE Val(txt)

\* _parse_validation, given what the two _s3_try_get_text calls returned
_parse_validation(invalid_txt, orders_txt) ==
    LET invalid_parsed == _parse_invalid_object_proof(or_empty(invalid_txt))
        orders_count == _parse_orders_count_proof(or_empty(orders_txt))
        sample_len == IF Len(invalid_parsed.objects) < 20
                      THEN Len(invalid_parsed.objects) ELSE 20
    IN [status |-> validation_status(invalid_parsed.count, orders_count),
        invalid_objects_count |-> invalid_parsed.count,
        invalid_objects_sample |-> SubSeq(invalid_parsed.objects, 1, sample_len),
        orders_count |-> orders_count,
        evidence |-> [invalid_object_proof |-> invalid_txt # None,
                      orders_count_proof |-> orders_txt # None]]

\* the position of the first double quote of s from i, or Len(s) + 1: the
\* end of [^"]+
QuoteFrom(s, i) ==
    LET q == {j \in i..Len(s) : Ch(s, j) = "\""}
    IN IF q = {} THEN Len(s) + 1 ELSE Leftmost(q)

\* ORA_39082_OBJ_RE matched at i: <<end, type, schema, name>>, or << >>
ORA_39082_OBJ_RE(s, i) ==
    LET t1 == RunEnd(s, i + Len("ora-39082:"), Whitespace)
        t2 == RunEnd(s, t1 + Len("object type"), Whitespace)
        t3 == RunEnd(s, t2, WordChars)
        s1 == QuoteFrom(s, t3 + 2)
        s2 == QuoteFrom(s, s1 + 3)
        c1 == RunEnd(s, s2 + 1, Whitespace)
    IN IF /\ MatchCI(s, i, "ora-39082:") /\ t1 > i + Len("ora-39082:")
          /\ MatchCI(s, t1, "object type") /\ t2 > t1 + Len("object type")
          /\ t3 > t2 /\ MatchCI(s, t3, ":\"") /\ s1 > t3 + 2
          /\ MatchCI(s, s1, "\".\"") /\ s2 > s1 + 3
          /\ MatchCI(s, s2, "\"") /\ c1 > s2 + 1
          /\ MatchCI(s, c1, "created with compilation warnings")
       THEN <<c1 + Len("created with compilation warnings"), SubSeq(s, t2, t3 - 1),
              SubSeq(s, t3 + 2, s1 - 1), SubSeq(s, s1 + 3, s2 - 1)>>
       ELSE << >>

\* str.upper of a word
RECURSIVE upper(_)
upper(w) ==
    IF w = "" THEN ""
    ELSE LET hits == {i \in 1..Len(LOWERCASE) : Ch(LOWERCASE, i) = Ch(w, 1)}
         IN (IF hits = {} THEN Ch(w, 1) ELSE Ch(UPPERCASE, CHOOSE i \in hits : TRUE))
                \o upper(SubSeq(w, 2, Len(w)))

\* finditer from position i: the matches, left to right, without overlap
\* (a match starts where its first literal, "ORA-39082:", is)
RECURSIVE compile_warnings_from(_, _)
compile_warnings_from(text, i) ==
    LET starts == {j \in i..Len(text) : MatchCI(text, j, "ora-39082:")}
    IN IF starts = {} THEN << >>
       ELSE LET m == ORA_39082_OBJ_RE(text, Leftmost(starts))
            IN IF m = << >> THEN compile_warnings_from(text, Leftmost(starts) + 1)
               ELSE <<[ora |-> "ORA-39082", object_type |-> upper(m[2]),
                       schema |-> m[3], object_name |-> m[4]]>>
                       \o compile_warnings_from(text, m[1])

_extract_compile_warnings_39082(text) == compile_warnings_from(text, 1)

\* str.lower of a word
RECURSIVE lower_str(_)
lower_str(w) ==
    IF w = "" THEN "" ELSE lower(Ch(w, 1)) \o lower_str(SubSeq(w, 2, Len(w)))

\* lines 270-274: the number of the first line that contains code_u in any
\* case, or 0 for hit_idx = None
first_hit(lines, code_u) ==
    LET code_l == lower_str(code_u)
        hits == {i \in 1..Len(lines) :
                    \E j \in 1..Len(lines[i]) : MatchCI(lines[i], j, code_l)}
    IN IF hits = {} THEN 0 ELSE Leftmost(hits)

\* lines 278-280: lines[start:end] around the hit
window(lines, hit, context_lines) ==
    LET start == IF hit - context_lines < 1 THEN 1 ELSE hit - context_lines
        end == IF hit + context_lines > Len(lines) THEN Len(lines)
               ELSE hit + context_lines
    IN SubSeq(lines, start, end)

\* the chunk kept whole, whatever remains of the budget
chunk_untruncated(chunk, remaining) == chunk

\* lines 285-286
truncated(chunk, remaining) ==
    IF Len(chunk) > remaining THEN SubSeq(chunk, 1, remaining) ELSE chunk

\* d[key] = value for a dict held as the list of its (key, value) pairs in
\* insertion order
dict_set(d, key, value) ==
    IF \E i \in 1..Len(d) : d[i][1] = key
    THEN [i \in 1..Len(d) |-> IF d[i][1] = key THEN <<key, value>> ELSE d[i]]
    ELSE Append(d, <<key, value>>)

\* the loop of lines 268-289 over the codes from the k-th on, with `used`
\* lines spent and the excerpts gathered so far
RECURSIVE excerpts_from(_, _, _, _, _, _, _)
excerpts_from(lines, codes, k, used, context_lines, max_total_lines, excerpts) ==
    IF k > Len(codes) THEN excerpts
    ELSE LET code_u == upper(codes[k])
             hit == first_hit(lines, code_u)
             remaining == max_total_lines - used
             chunk == truncated(window(lines, hit, context_lines), remaining)
         IN IF hit = 0
            THEN excerpts_from(lines, codes, k + 1, used, context_lines,
                               max_total_lines, excerpts)
            ELSE IF remaining <= 0 THEN excerpts
            ELSE excerpts_from(lines, codes, k + 1, used + Len(chunk), context_lines,
                               max_total_lines, dict_set(excerpts, code_u, chunk))

\* the defaults of line 260
CONTEXT_LINES == 2
\* a budget of two whole windows
MAX_TOTAL_LINES_two_windows == 2 * (2 * CONTEXT_LINES + 1)
MAX_TOTAL_LINES == 20

_extract_excerpts(text, codes, context_lines, max_total_lines) ==
    IF text = "" \/ codes = << >> THEN << >>
    ELSE excerpts_from(splitlines(text), codes, 1, 0, context_lines,
                       max_total_lines, << >>)

(***************************************************************************)
(* The summary and the executive report.  A dict is a record; the summary's*)
(* top-level values are Optional (a null is None) and an absent key is     *)
(* absent from the record.  The report is the list `lines`; a line is the  *)
(* tuple of the parts of its format string, written without the back       *)
(* quotes of the Markdown source (a code fence is "~~~").                  *)
(***************************************************************************)
\* d.get(key, default), for a dict with plain values
get(d, key, default) == IF key \in DOMAIN d THEN d[key] ELSE default

\* summary.get(key, {}) or {}; summary.get(key, []) or []
get_or_empty(summary_, key) ==
    IF key \in DOMAIN summary_ /\ summary_[key] # None THEN Val(summary_[key]) ELSE << >>

\* seq[:n]
Take(seq, n) == SubSeq(seq, 1, IF Len(seq) < n THEN Len(seq) ELSE n)

\* _top_ora: the (code, count) pairs by descending count, the first top_n of
\* them.  sorted() keeps codes of equal count in the order of their first
\* occurrence, which a mapping without order does not record: the model
\* takes one fixed order of them.
_top_ora(ora_counts_by_file, top_n) ==
    LET codes == UNION {DOMAIN ora_counts_by_file[i][2] : i \in 1..Len(ora_counts_by_file)}
        total[i \in 0..Len(ora_counts_by_file)] ==
            IF i = 0 THEN [c \in codes |-> 0]
            ELSE [c \in codes |->
                    total[i - 1][c] + get(ora_counts_by_file[i][2], c, 0)]
        agg == total[Len(ora_counts_by_file)]
        order == CHOOSE sq \in [1..Cardinality(codes) -> codes] :
                    /\ \A i, j \in 1..Cardinality(codes) : sq[i] = sq[j] => i = j
                    /\ \A i, j \in 1..Cardinality(codes) : i < j => agg[sq[i]] >= agg[sq[j]]
    IN Take([i \in 1..Cardinality(codes) |-> <<order[i], agg[order[i]]>>], top_n)

\* lines.extend over a list of lists
RECURSIVE Flatten(_)
Flatten(seqs) == IF seqs = << >> THEN << >> ELSE Head(seqs) \o Flatten(Tail(seqs))

\* line 580; str(None) is "None"
finding_line(item) ==
    <<"- " \o get(item, "object_type", "None") \o ": " \o get(item, "schema", "None")
        \o "." \o get(item, "object_name", "None")>>

\* lines 575-581, with the first 5 findings kept instead of the first 20
compile_warnings_section_first_5(warnings) ==
    <<<<"## Compilation Warnings (ORA-39082)">>>>
        \o (IF warnings = << >> THEN <<<<"- None detected.">>>>
            ELSE [i \in 1..Len(Take(warnings, 5)) |-> finding_line(warnings[i])])
        \o <<<<"">>>>

\* lines 575-581
compile_warnings_section(warnings) ==
    <<<<"## Compilation Warnings (ORA-39082)">>>>
        \o (IF warnings = << >> THEN <<<<"- None detected.">>>>
            ELSE [i \in 1..Len(Take(warnings, 20)) |-> finding_line(warnings[i])])
        \o <<<<"">>>>

_render_executive_md(summary_) ==
    LET run == get_or_empty(summary_, "run")
        inv == get_or_empty(summary_, "artifact_inventory")
        derived == get_or_empty(summary_, "derived")
        dp == get_or_empty(summary_, "datapump")
        risk == get_or_empty(summary_, "risk")
        validation_ == get_or_empty(summary_, "validation")
        top_ora == _top_ora(get_or_empty(summary_, "ora_counts_by_file"), 10)
        factors == Take(get(risk, "factors", << >>), 10)
        sample == Take(get(validation_, "invalid_objects_sample", << >>), 10)
        export == get(dp, "export", << >>)
        import == get(dp, "import", << >>)
        excerpts == get_or_empty(summary_, "evidence_excerpts")
        guardrails == get_or_empty(summary_, "guardrails")
    IN <<<<"# Oracle Upgrade/Migration Executive Summary">>, <<"">>,
         <<"## Run Overview">>,
         <<"- **Run ID:** ", get(run, "run_id", ""), "">>,
         <<"- **Run Prefix:** ", get(run, "run_prefix", ""), "">>,
         <<"- **Environment:** ", get(run, "environment", ""), "">>,
         <<"- **AWS Region:** ", get(run, "aws_region", ""), "">>,
         <<"- **S3 Bucket:** ", get(run, "s3_bucket", ""), "">>,
         <<"- **Created UTC:** ", get(run, "created_utc", ""), "">>,
         <<"- **Overall Status:** ", get(summary_, "overall_status", Some("UNKNOWN")), "">>,
         <<"">>,
         <<"## Deterministic Risk Assessment">>,
         <<"- **Risk score (0-100):** ", get(risk, "score", None)>>,
         <<"- **Risk level:** ", get(risk, "level", None), "">>>>
       \o (IF factors = << >> THEN << >>
           ELSE <<<<"- **Top factors:**">>>>
                \o [i \in 1..Len(factors) |->
                      <<"  - ", factors[i].factor, " (+", factors[i].weight, "): ",
                        factors[i].evidence>>])
       \o <<<<"">>,
            <<"## Evidence Inventory (S3)">>,
            <<"- **Object count:** ", get(inv, "object_count", None)>>,
            <<"- **Total bytes:** ", get(inv, "total_bytes", None)>>,
            <<"- **Selected IMPDP log (final attempt):** ",
              get(derived, "selected_impdp_log", None), "">>,
            <<"- **Selection reason:** ", get(dp, "selection_reason", None), "">>,
            <<"">>,
            <<"## Data Pump Status (heuristic)">>,
            <<"- **Export log:** ", get(export, "log", None), " -> ",
              get(export, "status", None), " (state=", get(export, "completion_state", None),
              ", errors=", get(export, "completed_with_error_count", None), ")">>,
            <<"- **Import log:** ", get(import, "log", None), " -> ",
              get(import, "status", None), " (state=", get(import, "completion_state", None),
              ", attempts=", get(import, "attempt_count", None), ")">>,
            <<"">>,
            <<"## Validation (from proof artifacts)">>,
            <<"- **Validation status:** ", get(validation_, "status", None), "">>,
            <<"- **Invalid objects (count):** ", get(validation_, "invalid_objects_count", None)>>,
            <<"- **Orders count proof:** ", get(validation_, "orders_count", None)>>>>
       \o (IF sample = << >> THEN << >>
           ELSE <<<<"- **Invalid objects (sample):**">>>>
                \o [i \in 1..Len(sample) |->
                      <<"  - ", sample[i].owner, ".", sample[i].object_name, " (",
                        sample[i].object_type, ") = ", sample[i].status>>])
       \o <<<<"">>, <<"## Key Findings (ORA-* taxonomy)">>>>
       \o (IF top_ora = << >> THEN <<<<"- No ORA-* patterns detected in parsed logs.">>>>
           ELSE [i \in 1..Len(top_ora) |-> <<"- ", top_ora[i][1], ": ", top_ora[i][2]>>])
       \o <<<<"">>>>
       \o compile_warnings_section(get_or_empty(summary_, "compile_warnings"))
       \o (IF excerpts = << >> THEN << >>
           ELSE <<<<"## Evidence Excerpts (bounded)">>>>
                \o Flatten([i \in 1..Len(excerpts) |->
                     <<<<"### " \o excerpts[i][1]>>>>
                       \o Flatten([j \in 1..Len(excerpts[i][2]) |->
                            <<<<"- **" \o excerpts[i][2][j][1] \o "**">>, <<"~~~">>>>
                              \o [k \in 1..Len(excerpts[i][2][j][2]) |->
                                    <<excerpts[i][2][j][2][k]>>]
                              \o <<<<"~~~">>>>])])
                \o <<<<"">>>>)
       \o <<<<"## Governance / Guardrails">>>>
       \o [i \in 1..Len(guardrails) |-> <<"- " \o guardrails[i]>>]
       \o <<<<"">>, <<"---">>,
            <<"**Note:** Generated from S3 artifacts only. No DB commands executed by AWS components.">>,
            <<"">>>>

(***************************************************************************)
(* The bucket.  A key is a string.  The store holds the objects of the run *)
(* that the event designates, by their key relative to the run prefix:     *)
(*   metrics_body  the trigger object (None: absent)                       *)
(*   blobs         the allowlisted logs and the two proofs (None: absent)  *)
(*   listing       list_objects_v2 under the migration prefix, with the    *)
(*                 keys relative to that prefix                            *)
(*   impdp_body    what get_object returns for the selected import log     *)
(*                 (None: the object was deleted after the listing)        *)
(*   summary_doc, report_doc   the two outputs (None: not written)         *)
(***************************************************************************)
MIGRATION_PREFIX_REL == "03-migration/"
INVALID_OBJECT_PROOF_REL == "04-validation/invalid_object_proof.txt"
ORDERS_COUNT_PROOF_REL == "04-validation/orders_count_proof.txt"
METRICS_SUFFIX == "/00-metadata/metrics.json"
SUMMARY_REL == "00-metadata/sanitized_summary.json"
REPORT_REL == "05-reports/executive_report.md"

BlobKeys ==
    {ALLOWLIST_RELATIVE_KEYS[i] : i \in 1..Len(ALLOWLIST_RELATIVE_KEYS)}
        \cup {INVALID_OBJECT_PROOF_REL, ORDERS_COUNT_PROOF_REL}

NoBlobs == [k \in BlobKeys |-> None]

Store(metrics_body, blobs, listing, impdp_body) ==
    [metrics_body |-> metrics_body, blobs |-> blobs, listing |-> listing,
     impdp_body |-> impdp_body, summary_doc |-> None, report_doc |-> None]

\* a metrics document that json.loads accepts
MetricsDoc ==
    [valid |-> TRUE, is_dict |-> TRUE,
     doc |-> [run |-> [run_id |-> "r1", environment |-> "lab"],
              artifacts_summary |-> [object_count |-> 12]]]

\* a body that json.loads rejects
MetricsGarbage == [valid |-> FALSE, is_dict |-> FALSE, doc |-> << >>]

\* a JSON document that is not an object
MetricsList == [valid |-> TRUE, is_dict |-> FALSE, doc |-> << >>]

GoodKey == "runs/r1/00-metadata/metrics.json"
Bucket == "evidence-bucket"

ManualEvent(bucket, key) ==
    [is_dict |-> TRUE, Records |-> None, bucket |-> bucket, key |-> key]

\* urllib.parse.unquote_plus, for the escapes that occur in object keys
PercentDecoded(hex) ==
    CASE hex \in {"2F", "2f"} -> Some("/") [] hex = "20" -> Some(" ")
      [] hex \in {"2B", "2b"} -> Some("+") [] OTHER -> None

RECURSIVE unquote_plus(_)
unquote_plus(s) ==
    IF s = "" THEN ""
    ELSE IF Ch(s, 1) = "+" THEN " " \o unquote_plus(SubSeq(s, 2, Len(s)))
    ELSE IF Ch(s, 1) = "%" /\ Len(s) >= 3 /\ PercentDecoded(SubSeq(s, 2, 3)) # None
         THEN Val(PercentDecoded(SubSeq(s, 2, 3))) \o unquote_plus(SubSeq(s, 4, Len(s)))
         ELSE Ch(s, 1) \o unquote_plus(SubSeq(s, 2, Len(s)))

(***************************************************************************)
(* An event is                                                             *)
(*   is_dict   isinstance(event, dict)                                     *)
(*   Records   None when event.get("Records") is falsy, else the first     *)
(*             record: well_formed (it has ["s3"]["bucket"]["name"] and    *)
(*             ["s3"]["object"]["key"]), bucket, key                       *)
(*   bucket, key   event.get("bucket"), event.get("key"); "" when falsy    *)
(***************************************************************************)
NotADict == [is_dict |-> FALSE, Records |-> None, bucket |-> "", key |-> ""]

S3Event(well_formed, bucket, key) ==
    [is_dict |-> TRUE,
     Records |-> Some([well_formed |-> well_formed, bucket |-> bucket, key |-> key]),
     bucket |-> "", key |-> ""]

\* the outcome of a call: a value, or the exception it raises
Returns(v) == [raises |-> "", value |-> Some(v)]
Raises(exc) == [raises |-> exc, value |-> None]

_get_bucket_key_from_event(ev) ==
    IF ev.is_dict /\ ev.Records # None
    THEN IF Val(ev.Records).well_formed
         THEN Returns([bucket |-> Val(ev.Records).bucket,
                       key |-> unquote_plus(Val(ev.Records).key)])
         ELSE Raises("KeyError")
    ELSE IF ev.is_dict /\ ev.bucket # "" /\ ev.key # ""
         THEN Returns([bucket |-> ev.bucket, key |-> ev.key])
         ELSE Raises("ValueError")

\* str.endswith
endswith(s, suffix) ==
    Len(s) >= Len(suffix) /\ SubSeq(s, Len(s) - Len(suffix) + 1, Len(s)) = suffix

\* _derive_run_prefix without the check of the suffix
_derive_run_prefix_unchecked(metrics_key) ==
    Returns(SubSeq(metrics_key, 1, Len(metrics_key) - Len("00-metadata/metrics.json")))

\* _derive_run_prefix with the suffix ".json" as its test
_derive_run_prefix_any_json(metrics_key) ==
    IF ~endswith(metrics_key, ".json") THEN Raises("ValueError")
    ELSE Returns(SubSeq(metrics_key, 1, Len(metrics_key) - Len("00-metadata/metrics.json")))

_derive_run_prefix(metrics_key) ==
    IF ~endswith(metrics_key, METRICS_SUFFIX) THEN Raises("ValueError")
    ELSE Returns(SubSeq(metrics_key, 1, Len(metrics_key) - Len("00-metadata/metrics.json")))

Triggered(key) ==
    [bucket |-> Bucket, key |-> key, run_prefix |-> Val(_derive_run_prefix(key).value)]

\* one storage call: a read or a listing, and a put_object with its Body
Call(op, key) == [op |-> op, key |-> key, body |-> None]
Put(key, body) == [op |-> "put", key |-> key, body |-> Some(body)]

\* the handler's local variables before line 613
FreshLocals ==
    /\ compile_warnings = << >> /\ evidence_excerpts = << >>
    /\ summary = None /\ result = None
    /\ objs = << >> /\ candidates = << >> /\ pick = None
    /\ Load(<< >>, [lr |-> None, n |-> 0], None)

\* the loop of lines 627-631 and line 633
AnalyzeLogs ==
    /\ pc = "analyze"
    /\ log_results' =
         [i \in 1..Len(ALLOWLIST_RELATIVE_KEYS) |->
            _analyze_log(ALLOWLIST_RELATIVE_KEYS[i],
                         store.blobs[ALLOWLIST_RELATIVE_KEYS[i]])]
    /\ ops' = ops \o [i \in 1..Len(ALLOWLIST_RELATIVE_KEYS) |->
                        Call("get", Val(trigger).run_prefix \o ALLOWLIST_RELATIVE_KEYS[i])]
    /\ pc' = "pick"
    /\ UNCHANGED <<impdp_lr, impdp_log_count, validation, overall_status,
                   status_reasons, risk_score_value, risk_factors, risk_level,
                   monoVars, pickVars, event, fault, store, trigger, metrics,
                   compile_warnings, evidence_excerpts, summary, result, invocation>>

(***************************************************************************)
(* SpecDp: _analyze_log over export-log texts of at most MaxLines lines    *)
(***************************************************************************)
DpLines ==
    {"", "Job successfully completed at 10:02", "Job completed with 3 error(s)",
     "job COMPLETED WITH 1 ERROR", "completed with errors", "Job completed",
     "import uncompleted", "completed with  12 \t errors", "completed with 3errors",
     "successfully  completed", "unsuccessfully completed_with 2 errors",
     "ORA-39000: bad dump file", "completed with 007 Errors; successfully completed"}

RECURSIVE TextsOf(_, _)
TextsOf(lines, n) ==
    IF n = 1 THEN lines
    ELSE LET shorter == TextsOf(lines, n - 1)
         IN shorter \cup {t \o "\n" \o l : t \in shorter, l \in lines}

DpTexts == TextsOf(DpLines, MaxLines)

\* lines with error codes in several cases, repeated, and with near misses
OraLines ==
    {"ora-39000 and Ora-31640, ORA-39000", "ORA-39082:ORA-39082 (ora-06512)",
     "XORA-39000 ORA-390001 ORA-3900 ORA_39000 ORA-39000_", "oRa-31640", "no error here"}

OraTexts == TextsOf(OraLines, MaxLines)

InitDp ==
    /\ pc = "analyze"
    /\ event = Some(ManualEvent(Bucket, GoodKey))
    /\ fault = "none"
    /\ \E text \in DpTexts \cup OraTexts :
         store = Store(Some(MetricsDoc),
                       [NoBlobs EXCEPT ![ALLOWLIST_RELATIVE_KEYS[2]] = Some(text)],
                       << >>, None)
    /\ FreshLocals
    /\ trigger = Some(Triggered(GoodKey))
    /\ metrics = Some(MetricsDoc)
    /\ ops = <<Call("get", GoodKey)>>
    /\ invocation = 1
    /\ IdleMono

NextDp == AnalyzeLogs

SpecDp == InitDp /\ [][NextDp]_vars

\* line 663: validation = _parse_validation(bucket, run_prefix)
ParseValidation ==
    /\ pc = "validate"
    /\ validation' = _parse_validation(store.blobs[INVALID_OBJECT_PROOF_REL],
                                       store.blobs[ORDERS_COUNT_PROOF_REL])
    /\ ops' = ops \o <<Call("get", Val(trigger).run_prefix \o INVALID_OBJECT_PROOF_REL),
                       Call("get", Val(trigger).run_prefix \o ORDERS_COUNT_PROOF_REL)>>
    /\ pc' = "assess"
    /\ UNCHANGED <<log_results, impdp_lr, impdp_log_count, overall_status,
                   status_reasons, risk_score_value, risk_factors, risk_level,
                   monoVars, pickVars, event, fault, store, trigger, metrics,
                   compile_warnings, evidence_excerpts, summary, result, invocation>>

(***************************************************************************)
(* SpecProof: _parse_validation over proof texts of at most MaxLines lines *)
(***************************************************************************)
ProofLines ==
    {"", "OWNER       OBJECT_NAME   OBJECT_TYPE   STATUS",
     "----------  ------------  ------------  -------",
     "LEGACY_APP  BAD_VIEW      VIEW          INVALID",
     "LEGACY_APP  GOOD_VIEW     VIEW          VALID",
     "  app  v\t\tview   invalid  ", "LEGACY_APP BAD_VIEW VIEW INVALID",
     "OWNER_APP   V1            VIEW          INVALID", "no rows selected"}

\* a proof of n INVALID rows, each with its own object name
RECURSIVE InvalidRows(_)
InvalidRows(n) ==
    IF n = 0 THEN "OWNER       OBJECT_NAME   OBJECT_TYPE   STATUS"
    ELSE InvalidRows(n - 1) \o "\nLEGACY_APP  V" \o ToString(n) \o "  VIEW  INVALID"

\* more INVALID rows than the sample of line 391 keeps
LongProof == InvalidRows(MaxRows)

OrdersTexts == {"", "ORDERS_COUNT\n------------\n50000", "12 34", " 7 \n8"}

InitProof ==
    /\ pc = "validate"
    /\ event = Some(ManualEvent(Bucket, GoodKey))
    /\ fault = "none"
    /\ \E inv \in {None, Some(LongProof)} \cup {Some(t) : t \in TextsOf(ProofLines, MaxLines)},
          ord \in {None} \cup {Some(t) : t \in OrdersTexts} :
         store = Store(Some(MetricsDoc),
                       [NoBlobs EXCEPT ![INVALID_OBJECT_PROOF_REL] = inv,
                                       ![ORDERS_COUNT_PROOF_REL] = ord],
                       << >>, None)
    /\ FreshLocals
    /\ trigger = Some(Triggered(GoodKey))
    /\ metrics = Some(MetricsDoc)
    /\ ops = <<Call("get", GoodKey)>>
    /\ invocation = 1
    /\ IdleMono

NextProof == ParseValidation

SpecProof == InitProof /\ [][NextProof]_vars

(***************************************************************************)
(* lambda_handler, step by step.  An exception ends the invocation at      *)
(* pc = "raised"; the return statement ends it at pc = "done".             *)
(***************************************************************************)
Raise(exc) ==
    /\ result' = Some([ok |-> FALSE, raised |-> exc])
    /\ pc' = "raised"

\* lines 613-614
ParseEvent ==
    /\ pc = "start"
    /\ LET bk == _get_bucket_key_from_event(Val(event))
           rp == _derive_run_prefix(Val(bk.value).key)
       IN IF bk.raises # "" THEN Raise(bk.raises) /\ trigger' = trigger
          ELSE IF rp.raises # "" THEN Raise(rp.raises) /\ trigger' = trigger
          ELSE /\ trigger' = Some([bucket |-> Val(bk.value).bucket,
                                   key |-> Val(bk.value).key,
                                   run_prefix |-> Val(rp.value)])
               /\ pc' = "metrics"
               /\ result' = result
    /\ UNCHANGED <<statusVars, monoVars, pickVars, event, fault, store, metrics,
                   compile_warnings, evidence_excerpts, summary, ops, invocation>>

\* line 620: _s3_get_text raises when the object is absent, json.loads when
\* the body is not JSON
FetchMetrics ==
    /\ pc = "metrics"
    /\ ops' = Append(ops, Call("get", Val(trigger).key))
    /\ IF fault = "get_metrics" THEN Raise("ClientError") /\ metrics' = metrics
       ELSE IF store.metrics_body = None
            THEN Raise("NoSuchKey") /\ metrics' = metrics
       ELSE IF ~Val(store.metrics_body).valid
            THEN Raise("JSONDecodeError") /\ metrics' = metrics
       ELSE /\ metrics' = store.metrics_body
            /\ pc' = "analyze"
            /\ result' = result
    /\ UNCHANGED <<statusVars, monoVars, pickVars, event, fault, store, trigger,
                   compile_warnings, evidence_excerpts, summary, invocation>>

\* lines 225-227: the listing of _pick_best_impdp_log
ListObjects ==
    /\ pc = "pick"
    /\ ops' = Append(ops, Call("list", Val(trigger).run_prefix \o MIGRATION_PREFIX_REL))
    /\ IF fault = "list" THEN Raise("ClientError") /\ objs' = objs
       ELSE /\ objs' = store.listing
            /\ pc' = "list"
            /\ result' = result
    /\ UNCHANGED <<statusVars, monoVars, candidates, pick, event, fault, store,
                   trigger, metrics, compile_warnings, evidence_excerpts, summary,
                   invocation>>

\* the characters of a listed key, as a string
RECURSIVE KeyString(_)
KeyString(chars) ==
    IF chars = << >> THEN "" ELSE Head(chars) \o KeyString(Tail(chars))

\* selected_impdp_abs.replace(run_prefix, ""), for a key listed under
\* run_prefix + MIGRATION_PREFIX_REL
selected_impdp_rel_of(key) == MIGRATION_PREFIX_REL \o KeyString(key)

\* sorted([c for c in ora_counts.keys() if c in FATAL_ORA])
fatal_in(ora_counts) ==
    LET present(c) == c \in DOMAIN ora_counts
    IN SelectSeq(<<"ORA-27037", "ORA-31640", "ORA-39000">>, present)

\* lines 638-660
FetchImpdp ==
    /\ pc = "picked"
    /\ impdp_log_count' = Val(pick).count
    /\ IF Val(pick).key = None
       THEN /\ impdp_lr' = None
            /\ compile_warnings' = << >>
            /\ evidence_excerpts' = << >>
            /\ ops' = ops
            /\ pc' = "validate"
            /\ result' = result
       ELSE LET rel == selected_impdp_rel_of(Val(Val(pick).key))
                lr == _analyze_log(rel, store.impdp_body)
            IN /\ ops' = Append(ops, Call("get", Val(trigger).run_prefix \o rel))
               /\ IF store.impdp_body = None
                  THEN /\ Raise("NoSuchKey")
                       /\ UNCHANGED <<impdp_lr, compile_warnings, evidence_excerpts>>
                  ELSE /\ impdp_lr' = Some(lr)
                       /\ evidence_excerpts' =
                            IF fatal_in(lr.ora_counts) = << >> THEN << >>
                            ELSE <<<<rel, _extract_excerpts(Val(store.impdp_body),
                                                            fatal_in(lr.ora_counts),
                                                            CONTEXT_LINES,
                                                            MAX_TOTAL_LINES)>>>>
                       /\ compile_warnings' =
                            _extract_compile_warnings_39082(Val(store.impdp_body))
                       /\ pc' = "validate"
                       /\ result' = result
    /\ UNCHANGED <<log_results, validation, overall_status, status_reasons,
                   risk_score_value, risk_factors, risk_level, monoVars, pickVars,
                   event, fault, store, trigger, metrics, summary, invocation>>

\* dp_status with a missing log reported as WARN
dp_status_missing_is_warn(lr) ==
    IF lr = None \/ ~Val(lr).found THEN "WARN"
    ELSE IF \E c \in DOMAIN Val(lr).ora_counts : c \in FATAL_ORA THEN "FAIL"
    ELSE IF Val(lr).dp_state = "SUCCESS" THEN "PASS"
    ELSE "WARN"

\* lines 669-678
dp_status(lr) ==
    IF lr = None \/ ~Val(lr).found THEN "MISSING"
    ELSE IF \E c \in DOMAIN Val(lr).ora_counts : c \in FATAL_ORA THEN "FAIL"
    ELSE IF Val(lr).dp_state = "SUCCESS" THEN "PASS"
    ELSE "WARN"

\* lines 680-695
datapump_of(expdp_lr, selected_rel) ==
    [export |->
        [log |-> IF expdp_lr = None THEN None ELSE Some(Val(expdp_lr).key_rel),
         status |-> dp_status(expdp_lr),
         completion_state |-> IF expdp_lr = None THEN "NONE" ELSE Val(expdp_lr).dp_state,
         completed_with_error_count |->
            IF expdp_lr = None THEN None ELSE Val(expdp_lr).dp_error_count],
     import |->
        [log |-> selected_rel,
         status |-> dp_status(impdp_lr),
         completion_state |-> IF impdp_lr = None THEN "NONE" ELSE Val(impdp_lr).dp_state,
         attempt_count |-> impdp_log_count],
     impdp_candidates |-> Val(pick).meta,
     selection_reason |-> Val(pick).selection_reason]

\* metrics.get(key, {}) or {}
metrics_get(key) ==
    IF key \in DOMAIN Val(metrics).doc THEN Val(metrics).doc[key] ELSE << >>

\* lines 697-718; log_presence and ora_counts_by_file are the lists of their
\* items, in insertion order
summary_of(status, reasons, score, factors) ==
    LET selected_rel == IF impdp_lr = None THEN None ELSE Some(Val(impdp_lr).key_rel)
        selected_items(v) == IF impdp_lr = None THEN << >> ELSE <<<<selected_rel[1], v>>>>
    IN [schema_version |-> Some("1.5.0"),
        run |-> Some(metrics_get("run")),
        trigger |-> Some([bucket |-> Val(trigger).bucket, key |-> Val(trigger).key]),
        derived |-> Some([run_prefix |-> Val(trigger).run_prefix,
                          selected_impdp_log |-> selected_rel]),
        artifact_inventory |-> Some(metrics_get("artifacts_summary")),
        log_presence |->
            Some([i \in 1..Len(log_results) |->
                    <<log_results[i].key_rel, log_results[i].found>>]
                 \o selected_items(TRUE)),
        ora_counts_by_file |->
            Some([i \in 1..Len(log_results) |->
                    <<log_results[i].key_rel, log_results[i].ora_counts>>]
                 \o (IF impdp_lr = None THEN << >>
                     ELSE <<<<selected_rel[1], Val(impdp_lr).ora_counts>>>>)),
        datapump |-> Some(datapump_of(expdp_of(log_results), selected_rel)),
        compile_warnings |-> Some(compile_warnings),
        validation |-> Some(validation),
        overall_status |-> Some(status),
        status_reasons |-> Some(reasons),
        risk |-> Some([score |-> score, level |-> _risk_level(score),
                       factors |-> factors]),
        evidence_excerpts |-> Some(evidence_excerpts),
        guardrails |-> Some(<<"No DB connections from AWS.",
                              "No execution of SQL/OS commands.",
                              "Allowlisted log parsing only.",
                              "Bounded reads from S3 objects.">>)]

\* lines 666-718: metrics.get raises when the metrics document is not a dict
Assess ==
    /\ pc = "assess"
    /\ LET st == _classify_status(expdp_of(log_results), impdp_lr, validation,
                                  impdp_log_count)
           rk == _risk_score(log_results, impdp_lr, impdp_log_count,
                             expdp_of(log_results), validation)
       IN /\ overall_status' = Some(st.status)
          /\ status_reasons' = st.reasons
          /\ risk_score_value' = Some(rk.score)
          /\ risk_factors' = rk.factors
          /\ risk_level' = Some(_risk_level(rk.score))
          /\ IF ~Val(metrics).is_dict
             THEN Raise("AttributeError") /\ summary' = summary
             ELSE /\ summary' = Some(summary_of(st.status, st.reasons, rk.score,
                                                rk.factors))
                  /\ pc' = "put_summary"
                  /\ result' = result
    /\ UNCHANGED <<log_results, impdp_lr, impdp_log_count, validation, monoVars,
                   pickVars, event, fault, store, trigger, metrics,
                   compile_warnings, evidence_excerpts, ops, invocation>>

\* json.dumps with the instant of the call written into the text
json_dumps_stamped(doc) == <<"json", doc, invocation>>

\* json.dumps(summary, indent=2).encode("utf-8"): the text of a dict is
\* determined by its items in insertion order
json_dumps(doc) == <<"json", doc>>

\* lines 721-727
PutSummary ==
    /\ pc = "put_summary"
    /\ LET summary_key == Val(trigger).run_prefix \o SUMMARY_REL
           body == json_dumps(Val(summary))
       IN /\ ops' = Append(ops, Put(summary_key, body))
          /\ IF fault = "put_summary" THEN Raise("ClientError") /\ store' = store
             ELSE /\ store' = [store EXCEPT !.summary_doc = Some(body)]
                  /\ pc' = "put_report"
                  /\ result' = result
    /\ UNCHANGED <<statusVars, monoVars, pickVars, event, fault, trigger, metrics,
                   compile_warnings, evidence_excerpts, summary, invocation>>

\* lines 730-736
PutReport ==
    /\ pc = "put_report"
    /\ LET report_key == Val(trigger).run_prefix \o REPORT_REL
           body == _render_executive_md(Val(summary))
       IN /\ ops' = Append(ops, Put(report_key, body))
          /\ IF fault = "put_report" THEN Raise("ClientError") /\ store' = store
             ELSE /\ store' = [store EXCEPT !.report_doc = Some(body)]
                  /\ pc' = "return"
                  /\ result' = result
    /\ UNCHANGED <<statusVars, monoVars, pickVars, event, fault, trigger, metrics,
                   compile_warnings, evidence_excerpts, summary, invocation>>

\* str.rstrip("/")
RECURSIVE rstrip_slash(_)
rstrip_slash(s) ==
    IF s # "" /\ Ch(s, Len(s)) = "/" THEN rstrip_slash(SubSeq(s, 1, Len(s) - 1)) ELSE s

\* the returned dict with the status of the export phase as overall_status
return_value_export_status ==
    [ok |-> TRUE,
     bucket |-> Val(trigger).bucket,
     run_prefix |-> rstrip_slash(Val(trigger).run_prefix),
     overall_status |-> Some(dp_status(expdp_of(log_results))),
     risk_score |-> risk_score_value,
     selected_impdp_log |-> IF impdp_lr = None THEN None ELSE Some(Val(impdp_lr).key_rel),
     sanitized_summary_key |-> Val(trigger).run_prefix \o SUMMARY_REL,
     executive_report_key |-> Val(trigger).run_prefix \o REPORT_REL]

\* lines 742-751
return_value ==
    [ok |-> TRUE,
     bucket |-> Val(trigger).bucket,
     run_prefix |-> rstrip_slash(Val(trigger).run_prefix),
     overall_status |-> overall_status,
     risk_score |-> risk_score_value,
     selected_impdp_log |-> IF impdp_lr = None THEN None ELSE Some(Val(impdp_lr).key_rel),
     sanitized_summary_key |-> Val(trigger).run_prefix \o SUMMARY_REL,
     executive_report_key |-> Val(trigger).run_prefix \o REPORT_REL]

Return ==
    /\ pc = "return"
    /\ result' = Some(return_value)
    /\ pc' = "done"
    /\ UNCHANGED <<statusVars, monoVars, pickVars, event, fault, store, trigger,
                   metrics, compile_warnings, evidence_excerpts, summary, ops,
                   invocation>>

\* the same event is delivered once more, over the bucket as it is now
Reinvoke ==
    /\ pc \in {"done", "raised"}
    /\ invocation = 1
    /\ invocation' = 2
    /\ pc' = "start"
    /\ ops' = Append(ops, Call("invoke", ""))
    /\ log_results' = << >> /\ impdp_lr' = None /\ impdp_log_count' = 0
    /\ validation' = None /\ overall_status' = None /\ status_reasons' = << >>
    /\ risk_score_value' = None /\ risk_factors' = << >> /\ risk_level' = None
    /\ objs' = << >> /\ candidates' = << >> /\ pick' = None
    /\ trigger' = None /\ metrics' = None
    /\ compile_warnings' = << >> /\ evidence_excerpts' = << >>
    /\ summary' = None /\ result' = None
    /\ UNCHANGED <<monoVars, event, fault, store>>

(***************************************************************************)
(* SpecHandler: lambda_handler invoked twice with the same event.  Either  *)
(* the event is well formed, no call fails and the store ranges over the   *)
(* presence of every artifact and over the listings of at most MaxListed   *)
(* objects (the body of the selected import log being None when it was     *)
(* deleted after the listing), or the store is complete and the event, the *)
(* failing call and the metrics body range over their cases.               *)
(***************************************************************************)
HandlerEvents ==
    {NotADict, ManualEvent("", ""), ManualEvent(Bucket, ""), ManualEvent("", GoodKey),
     ManualEvent(Bucket, GoodKey),
     ManualEvent(Bucket, "runs/r1/00-metadata/metrics.json.bak"),
     ManualEvent(Bucket, "00-metadata/metrics.json"),
     ManualEvent(Bucket, "runs/r1/05-reports/executive_report.md"),
     ManualEvent(Bucket, "runs/r1/00-metadata/Metrics.json"),
     S3Event(TRUE, Bucket, GoodKey),
     S3Event(TRUE, Bucket, "runs/r1/00-metadata%2Fmetrics.json"),
     S3Event(TRUE, Bucket, "runs/r+1/00-metadata/metrics.json"),
     S3Event(TRUE, Bucket, "runs/r1/00-metadata/metrics.json%20"),
     S3Event(TRUE, Bucket, "runs/r1/03-migration/impdp_a.log"),
     S3Event(FALSE, "", "")}

Faults == {"none", "get_metrics", "list", "put_summary", "put_report"}

MetricsBodies == {None, Some(MetricsDoc), Some(MetricsGarbage), Some(MetricsList)}

ImpdpClean ==
    "ORA-39082: Object type VIEW:\"APP\".\"V1\" created with compilation warnings\nJob \"SYS\".\"IMP_01\" successfully completed at 10:02"

ImpdpFatal ==
    "ORA-39000: bad dump file specification\nORA-31640: unable to open dump file\nJob stopped due to fatal error"

\* an export log with a fatal code before its success marker
ExpdpFatalThenSuccess ==
    "ORA-31640: unable to open dump file \"exp_02.dmp\" for read\nJob \"SYS\".\"EXP_01\" successfully completed at 09:12"

\* an import log with the three fatal codes, each with its own window
ImpdpThreeFatal ==
    "Import: Release 23.0.0.0.0\nConnected to: Oracle Database 23c\nORA-39000: bad dump file specification\nline 4\nline 5\nline 6\nline 7\nora-31640: unable to open dump file\nline 9\nline 10\nline 11\nline 12\nORA-27037: unable to obtain file status\nORA-39000: bad dump file specification\nJob stopped due to fatal error"

HandlerBlobs ==
    {[k \in BlobKeys |->
        CASE k = ALLOWLIST_RELATIVE_KEYS[1] -> pre
          [] k = ALLOWLIST_RELATIVE_KEYS[2] -> exp
          [] k = ALLOWLIST_RELATIVE_KEYS[3] -> post
          [] k = INVALID_OBJECT_PROOF_REL -> inv
          [] k = ORDERS_COUNT_PROOF_REL -> ord] :
        pre \in {None, Some("Precheck complete")},
        exp \in {None, Some("Job \"SYS\".\"EXP_01\" successfully completed at 09:12")},
        post \in {None, Some("ORA-06512: at line 1")},
        inv \in {None, Some("no rows selected")},
        ord \in {None, Some("50000")}}

FullBlobs == CHOOSE b \in HandlerBlobs : \A k \in BlobKeys : b[k] # None

\* the listings of at most MaxListed objects with distinct keys
HandlerListings ==
    {l \in Listings(MaxListed) :
        /\ DistinctKeys(l)
        /\ \A i \in 1..Len(l) :
             l[i].Key \in {KEY_A, KEY_RETRY, KEY_EXPDP} /\ l[i].LastModified = i}

HandlerStores ==
    {Store(Some(MetricsDoc), b, l, body) :
        b \in HandlerBlobs, l \in HandlerListings, body \in {None, Some(ImpdpClean)}}
        \cup {Store(Some(MetricsDoc),
                    [FullBlobs EXCEPT ![INVALID_OBJECT_PROOF_REL] = inv], l,
                    Some(ImpdpFatal)) :
                l \in HandlerListings,
                inv \in {None, Some("LEGACY_APP  BAD_VIEW      VIEW          INVALID")}}
        \cup {Store(Some(MetricsDoc),
                    [FullBlobs EXCEPT ![ALLOWLIST_RELATIVE_KEYS[2]] =
                                            Some(ExpdpFatalThenSuccess)],
                    l, Some(ImpdpClean)) :
                l \in HandlerListings}
        \cup {Store(Some(MetricsDoc), FullBlobs, l, Some(ImpdpThreeFatal)) :
                l \in HandlerListings}

InitHandler ==
    /\ pc = "start"
    /\ invocation = 1
    /\ ops = << >>
    /\ FreshLocals
    /\ trigger = None
    /\ metrics = None
    /\ IdleMono
    /\ \/ /\ event = Some(ManualEvent(Bucket, GoodKey))
          /\ fault = "none"
          /\ store \in {st \in HandlerStores :
                          st.impdp_body # None => filter_candidates(st.listing) # << >>}
       \/ /\ event \in {Some(e) : e \in HandlerEvents}
          /\ fault \in Faults
          /\ store \in {Store(m, FullBlobs, <<[Key |-> KEY_A, LastModified |-> 1]>>,
                              Some(ImpdpClean)) : m \in MetricsBodies}

NextHandler ==
    \/ ParseEvent \/ FetchMetrics \/ AnalyzeLogs \/ ListObjects
    \/ PickNoCandidates \/ PickSelect \/ FetchImpdp \/ ParseValidation
    \/ Assess \/ PutSummary \/ PutReport \/ Return \/ Reinvoke

SpecHandler == InitHandler /\ [][NextHandler]_vars

(***************************************************************************)
(* SpecRender: _render_executive_md over summaries.  The compile_warnings  *)
(* entry is absent, null, or a list of at most MaxWarnings findings; the   *)
(* other entries are all present, all null or all absent.                  *)
(***************************************************************************)
Finding(i) ==
    [ora |-> "ORA-39082", object_type |-> "VIEW", schema |-> "APP",
     object_name |-> "V" \o ToString(i)]

FindingLists ==
    {[i \in 1..n |-> Finding(i)] : n \in 0..MaxWarnings}
        \cup {<<[ora |-> "ORA-39082", schema |-> "APP"]>>}

\* a summary as lambda_handler writes it, without its compile_warnings
WrittenSummary(excerpts) ==
    [schema_version |-> Some("1.5.0"),
     run |-> Some(MetricsDoc.doc.run),
     trigger |-> Some([bucket |-> Bucket, key |-> GoodKey]),
     derived |-> Some([run_prefix |-> "runs/r1/",
                       selected_impdp_log |-> Some(SelectedImpdpRel)]),
     artifact_inventory |-> Some(MetricsDoc.doc.artifacts_summary),
     ora_counts_by_file |->
        Some(<<<<SelectedImpdpRel, _parse_ora_counts(ImpdpFatal \o "\n" \o ImpdpClean)>>>>),
     validation |-> Some(_parse_validation(
                            Some("LEGACY_APP  BAD_VIEW      VIEW          INVALID"), None)),
     overall_status |-> Some("FAIL"),
     risk |-> Some([score |-> 50, level |-> "MEDIUM",
                    factors |-> <<Factor("fatal_ora_present", "ORA-39000")>>]),
     evidence_excerpts |-> Some(excerpts),
     guardrails |-> Some(<<"No DB connections from AWS.">>)]

RenderSummaries ==
    {[k \in (IF others = "absent" THEN {} ELSE DOMAIN WrittenSummary(ex))
                \cup (IF cw = <<"absent">> THEN {} ELSE {"compile_warnings"}) |->
        IF k = "compile_warnings" THEN (IF cw = <<"null">> THEN None ELSE Some(cw[2]))
        ELSE IF others = "null" THEN None
        ELSE WrittenSummary(ex)[k]] :
        others \in {"present", "null", "absent"},
        cw \in {<<"absent">>, <<"null">>} \cup {<<"list", l>> : l \in FindingLists},
        ex \in {<< >>,
                <<<<SelectedImpdpRel,
                    _extract_excerpts(ImpdpFatal, <<"ORA-31640", "ORA-39000">>,
                                      CONTEXT_LINES, MAX_TOTAL_LINES)>>>>}}

InitRender ==
    /\ pc = "render"
    /\ summary \in {Some(d) : d \in RenderSummaries}
    /\ event = None /\ fault = "none" /\ store = None /\ trigger = None
    /\ metrics = None /\ compile_warnings = << >> /\ evidence_excerpts = << >>
    /\ ops = << >> /\ result = None /\ invocation = 0
    /\ Load(<< >>, [lr |-> None, n |-> 0], None)
    /\ IdlePick
    /\ IdleMono

\* line 734: _render_executive_md(summary)
Render ==
    /\ pc = "render"
    /\ result' = Some([ok |-> TRUE, report |-> _render_executive_md(Val(summary))])
    /\ pc' = "rendered"
    /\ UNCHANGED <<statusVars, monoVars, pickVars, event, fault, store, trigger,
                   metrics, compile_warnings, evidence_excerpts, summary, ops,
                   invocation>>

NextRender == Render

SpecRender == InitRender /\ [][NextRender]_vars

(***************************************************************************)
(* SpecChain: the bucket notifies the function of every object created in  *)
(* it, the objects that lambda_handler writes included (lines 3-8): an     *)
(* invocation that has written an object is followed by an invocation      *)
(* whose event names that object.                                          *)
(***************************************************************************)
\* the keys of the objects that the current invocation has written
WrittenKeys ==
    IF trigger = None THEN {}
    ELSE {k \in {Val(trigger).run_prefix \o SUMMARY_REL,
                 Val(trigger).run_prefix \o REPORT_REL} :
            /\ \E i \in 1..Len(ops) :
                    /\ ops[i].op = "put" /\ ops[i].key = k
                    /\ \A j \in i..Len(ops) : ops[j].op # "invoke"
            /\ k = Val(trigger).run_prefix \o SUMMARY_REL => store.summary_doc # None
            /\ k = Val(trigger).run_prefix \o REPORT_REL => store.report_doc # None}

\* the S3:ObjectCreated notification of an object written by the invocation
\* that has ended
NotifyOutput ==
    /\ pc \in {"done", "raised"}
    /\ invocation < MaxChain
    /\ \E k \in WrittenKeys : event' = Some(S3Event(TRUE, Val(trigger).bucket, k))
    /\ invocation' = invocation + 1
    /\ pc' = "start"
    /\ ops' = Append(ops, Call("invoke", ""))
    /\ log_results' = << >> /\ impdp_lr' = None /\ impdp_log_count' = 0
    /\ validation' = None /\ overall_status' = None /\ status_reasons' = << >>
    /\ risk_score_value' = None /\ risk_factors' = << >> /\ risk_level' = None
    /\ objs' = << >> /\ candidates' = << >> /\ pick' = None
    /\ trigger' = None /\ metrics' = None
    /\ compile_warnings' = << >> /\ evidence_excerpts' = << >>
    /\ summary' = None /\ result' = None
    /\ UNCHANGED <<monoVars, fault, store>>

\* trigger keys of several runs, one of them under a prefix that ends like
\* a trigger key
ChainKeys ==
    {GoodKey, "a/00-metadata/metrics.json",
     "x/00-metadata/metrics.json/00-metadata/metrics.json"}

InitChain ==
    /\ pc = "start"
    /\ invocation = 1
    /\ ops = << >>
    /\ FreshLocals
    /\ trigger = None
    /\ metrics = None
    /\ IdleMono
    /\ event \in {Some(ManualEvent(Bucket, k)) : k \in ChainKeys}
                    \cup {Some(S3Event(TRUE, Bucket, k)) : k \in ChainKeys}
    /\ fault \in {"none", "put_report"}
    /\ store \in {Store(Some(MetricsDoc), FullBlobs, l, Some(ImpdpClean)) :
                        l \in HandlerListings}

NextChain ==
    \/ ParseEvent \/ FetchMetrics \/ AnalyzeLogs \/ ListObjects
    \/ PickNoCandidates \/ PickSelect \/ FetchImpdp \/ ParseValidation
    \/ Assess \/ PutSummary \/ PutReport \/ Return \/ NotifyOutput

SpecChain == InitChain /\ [][NextChain]_vars

(***************************************************************************)
(* SpecExcerpt: _extract_excerpts over texts, code lists, context sizes    *)
(* and line budgets                                                        *)
(***************************************************************************)
ExcerptTexts ==
    {"", "no codes\nat all", "ORA-39000",
     "ORA-27037 first\nsecond Ora-39000",
     "x\ny\nz\nORA-31640 ORA-39000 same line\nw",
     "l1\nl2 ORA-39000\nl3\nl4\nl5 ora-31640\nl6\nl7 ORA-39000 again\nl8 ORA-27037"}

\* codes in upper and lower case, one of them in no text
ExcerptCodes == {"ORA-39000", "ora-31640", "ORA-00001"}

RECURSIVE CodeLists(_)
CodeLists(n) ==
    IF n = 0 THEN {<< >>}
    ELSE LET shorter == CodeLists(n - 1)
         IN shorter \cup {Append(l, c) : l \in {x \in shorter : Len(x) = n - 1},
                                         c \in ExcerptCodes}

InitExcerpt ==
    /\ pc = "extract"
    /\ \E text \in ExcerptTexts, codes \in CodeLists(MaxCodes),
          context_lines \in 0..MaxContext, max_total_lines \in 0..MaxBudget :
         args = Some([text |-> text, codes |-> codes, context_lines |-> context_lines,
                      max_total_lines |-> max_total_lines])
    /\ alt = None /\ alt_risk = None
    /\ event = None /\ fault = "none" /\ store = None /\ trigger = None
    /\ metrics = None /\ compile_warnings = << >> /\ evidence_excerpts = << >>
    /\ summary = None /\ ops = << >> /\ result = None /\ invocation = 0
    /\ Load(<< >>, [lr |-> None, n |-> 0], None)
    /\ IdlePick

\* a call of _extract_excerpts
ExtractExcerpts ==
    /\ pc = "extract"
    /\ evidence_excerpts' = _extract_excerpts(Val(args).text, Val(args).codes,
                                              Val(args).context_lines,
                                              Val(args).max_total_lines)
    /\ pc' = "extracted"
    /\ UNCHANGED <<statusVars, monoVars, pickVars, event, fault, store, trigger,
                   metrics, compile_warnings, summary, ops, result, invocation>>

NextExcerpt == ExtractExcerpts

SpecExcerpt == InitExcerpt /\ [][NextExcerpt]_vars

(***************************************************************************)
(* The three handlers that call the generative-text service: src/app.py    *)
(* lambda_handler, src/aws-deploy/index.py handler and                     *)
(* src/aws-deploy/lambdas/bedrock_generate/index.py handler.  The call     *)
(* returns a text or raises; `generated` is its outcome.  A report is the  *)
(* string that is written, a code fence being "~~~".                       *)
(***************************************************************************)
\* str() of an Optional integer
str(v) == IF v = None THEN "None" ELSE ToString(Val(v))

\* "\n".join of the lines "- " + e for e in items[:n], each after a "\n"
RECURSIVE bullet_lines(_, _)
bullet_lines(items, n) ==
    IF items = << >> \/ n = 0 THEN ""
    ELSE "\n- " \o Head(items) \o bullet_lines(Tail(items), n - 1)

\* src/app.py deterministic_fallback; the items of the invalid-object
\* sample are strings
deterministic_fallback(m, sanitized) ==
    LET run_id == get(m, "run_id", "unknown")
        before_ == str(get(m, "invalid_objects_before", None))
        after_ == str(get(m, "invalid_objects_after", None))
        ora_errors == get(m, "ora_errors", << >>)
        invalids == get(m, "invalid_objects_sample", << >>)
    IN "## Executive Summary\n"
       \o "This run captured an Oracle migration/upgrade validation report for **"
       \o run_id \o "**. Invalid objects before: **" \o before_ \o "**; after: **"
       \o after_ \o "**. This report was generated using structured artifacts; AI generation is currently blocked by account authorization."
       \o "\n\n## Technical Summary"
       \o "\n- Invalid objects before: " \o before_
       \o "\n- Invalid objects after: " \o after_
       \o "\n- ORA errors detected (sample): " \o ToString(Len(ora_errors))
       \o (IF ora_errors = << >> THEN ""
           ELSE "\n\n### ORA Errors (sample)" \o bullet_lines(ora_errors, 10))
       \o (IF invalids = << >> THEN ""
           ELSE "\n\n### Invalid Objects (sample)" \o bullet_lines(invalids, 25))
       \o (IF sanitized = None THEN ""
           ELSE "\n\n## Sanitized Summary (input)\n~~~json\n"
                \o SubSeq(Val(sanitized), 1,
                          IF Len(Val(sanitized)) < 4000 THEN Len(Val(sanitized)) ELSE 4000)
                \o "\n~~~")
       \o "\n\n## Recommended Next Steps / Preventive Controls"
       \o "\n- Keep a deterministic pre/post validation checklist (DBA_OBJECTS invalids, DBA_ERRORS, dependencies)."
       \o "\n- Add a dependency check step for views/packages prior to cutover."
       \o "\n- Standardize artifact storage in S3 per run_id (logs, metrics.json, final report)."
       \o "\n- Use AI only for summarization and documentation; never for executing DB changes automatically."
       \o "\n\n## LinkedIn Narrative\n"
       \o "I built an Oracle upgrade/migration lab using Docker and automated pre/post validation. Artifacts (logs + structured metrics) are published to S3 per run, and a Lambda function produces a standardized executive report. The design is model-agnostic: the AI layer can be enabled via Amazon Bedrock once account authorization is granted, while deterministic reporting ensures repeatability and auditability today."

\* src/aws-deploy/index.py fallback_report; invalid_objects_sample is held
\* as the text Python prints for the list
fallback_report(m, bedrock_error) ==
    LET sig == get(m, "signals", << >>)
        errors == get(sig, "ora_errors_sample", << >>)
    IN "## Executive Summary\n"
       \o "This run generated an Oracle migration/upgrade validation summary. Invalid objects detected: **"
       \o str(get(sig, "invalid_objects_detected", None)) \o "**. Orders count proof: **"
       \o str(get(sig, "orders_count", None)) \o "**."
       \o "\n\n## Technical Summary"
       \o "\n- Invalid objects sample: " \o get(sig, "invalid_objects_sample", "None")
       \o "\n- ORA errors (sample): " \o ToString(Len(errors))
       \o (IF errors = << >> THEN ""
           ELSE "\n\n### ORA errors (sample)" \o bullet_lines(errors, 15))
       \o "\n\n## Preventive Controls"
       \o "\n- Add dependency checks to detect views broken by dropped/renamed columns."
       \o "\n- Standardize pre/post validation and keep artifacts in S3 per run_id."
       \o "\n- Keep AI optional and non-destructive (documentation only)."
       \o "\n\n## LinkedIn Narrative\n"
       \o "I built a Docker-based Oracle migration/upgrade lab using Data Pump (expdp/impdp) and automated validation. Artifacts are stored per run in S3, and Lambda generates standardized executive reports. The architecture supports GenAI summarization via Amazon Bedrock when authorized, while deterministic parsing ensures auditability."
       \o "\n\n---"
       \o "\n**Bedrock error:** " \o bedrock_error

MODEL_ID == "amazon.titan-text-lite-v1"

\* src/app.py lines 243-251
app_report_body(m, sanitized, generated) ==
    IF generated.raises # ""
    THEN [engine |-> "fallback",
          body |-> deterministic_fallback(m, sanitized)
                      \o "\n\n---\n**Bedrock error:** " \o generated.raises \o "\n"]
    ELSE [engine |-> "bedrock:" \o MODEL_ID,
          body |-> IF Val(generated.value) # "" THEN Val(generated.value)
                   ELSE "Bedrock returned empty output."]

\* src/aws-deploy/index.py lines 298-306
deploy_report_body(m, generated) ==
    IF generated.raises # ""
    THEN [engine |-> "fallback", body |-> fallback_report(m, generated.raises)]
    ELSE [engine |-> "bedrock:" \o MODEL_ID,
          body |-> IF Val(generated.value) # "" THEN Val(generated.value)
                   ELSE "Bedrock returned empty output."]

GenBucket == "upgrade-bucket"

\* src/app.py lambda_handler, from the run id on (lines 196-264); `now` is
\* datetime.utcnow().isoformat(); the metrics are under the first candidate
\* key or under none, and no sanitized summary is stored for the run
AppHandler ==
    /\ pc = "generate" /\ Val(event).handler = "app"
    /\ \E now \in {"2026-01-01T00:00:00", "2026-01-01T00:00:01"} :
         IF Val(event).run_id = None
         THEN /\ result' = Some([status |-> "error"])
              /\ UNCHANGED <<store, ops>>
         ELSE LET run_id == Val(Val(event).run_id)
                  used_metrics_key == "runs/" \o run_id \o "/metrics/metrics.json"
                  header == "# Oracle Upgrade / Migration Report\n**Run ID:** " \o run_id
                            \o "\n**Generated (UTC):** " \o now \o "Z\n**Metrics Source:** s3://"
                            \o GenBucket \o "/" \o used_metrics_key \o "\n\n---\n"
                  r == app_report_body(Val(metrics), None, store.generated)
                  report_key == "runs/" \o run_id \o "/executive_report.md"
                  final_report == header \o r.body \o "\n"
              IN IF metrics = None
                 THEN /\ result' = Some([status |-> "error"])
                      /\ ops' = ops \o <<Call("get", used_metrics_key),
                                         Call("get", "runs/" \o run_id \o "/metrics.json"),
                                         Call("get", run_id \o "/metrics.json")>>
                      /\ store' = store
                 ELSE /\ ops' = ops \o <<Call("get", used_metrics_key),
                                         Call("get", "runs/" \o run_id \o "/sanitized_summary.json"),
                                         Call("get", "runs/" \o run_id
                                                        \o "/sanitized/sanitized_summary.json"),
                                         Put(report_key, final_report)>>
                      /\ store' = [store EXCEPT !.report_doc = Some(final_report)]
                      /\ result' = Some([status |-> "success", engine |-> r.engine])
    /\ pc' = "done"
    /\ UNCHANGED <<statusVars, monoVars, pickVars, event, fault, trigger, metrics,
                   compile_warnings, evidence_excerpts, summary, invocation>>

\* src/aws-deploy/index.py handler, from the run id on (lines 278-311);
\* `metrics` is what build_metrics returns
DeployHandler ==
    /\ pc = "generate" /\ Val(event).handler = "deploy"
    /\ \E now \in {"2026-01-01T00:00:00", "2026-01-01T00:00:01"} :
         IF Val(event).run_id = None
         THEN /\ result' = Some([status |-> "error"])
              /\ UNCHANGED <<store, ops>>
         ELSE LET run_id == Val(Val(event).run_id)
                  metrics_key == "runs/" \o run_id \o "/07-genai/metrics.json"
                  report_key == "runs/" \o run_id \o "/05-reports/executive_report.md"
                  header == "# Oracle Upgrade / Migration Executive Report\n**Run ID:** "
                            \o run_id \o "\n**Generated (UTC):** " \o now
                            \o "Z\n**Metrics:** s3://" \o GenBucket \o "/" \o metrics_key
                            \o "\n\n---\n"
                  r == deploy_report_body(Val(metrics), store.generated)
                  final == header \o r.body \o "\n"
              IN /\ ops' = ops \o <<Put(metrics_key, Val(metrics)), Put(report_key, final)>>
                 /\ store' = [store EXCEPT !.report_doc = Some(final)]
                 /\ result' = Some([status |-> "success", engine |-> r.engine])
    /\ pc' = "done"
    /\ UNCHANGED <<statusVars, monoVars, pickVars, event, fault, trigger, metrics,
                   compile_warnings, evidence_excerpts, summary, invocation>>

\* src/aws-deploy/lambdas/bedrock_generate/index.py handler: nothing catches
\* what invoke_anthropic raises; `metrics` is the evidence object
BedrockGenerateHandler ==
    /\ pc = "generate" /\ Val(event).handler = "bedrock_generate"
    /\ IF Val(event).model_id = None
       THEN Raise("ValueError") /\ UNCHANGED <<store, ops>>
       ELSE IF metrics = None
       THEN /\ Raise("NoSuchKey")
            /\ ops' = Append(ops, Call("get", "evidence.json"))
            /\ store' = store
       ELSE IF store.generated.raises # ""
       THEN /\ Raise(store.generated.raises)
            /\ ops' = Append(ops, Call("get", "evidence.json"))
            /\ store' = store
       ELSE /\ ops' = ops \o <<Call("get", "evidence.json"),
                               Put("narrative.md", Val(store.generated.value))>>
            /\ store' = [store EXCEPT !.report_doc = Some(Val(store.generated.value))]
            /\ result' = Some([ok |-> TRUE, model_id |-> Val(Val(event).model_id),
                               output_key |-> "narrative.md"])
            /\ pc' = "done"
    /\ UNCHANGED <<statusVars, monoVars, pickVars, event, fault, trigger, metrics,
                   compile_warnings, evidence_excerpts, summary, invocation>>

(***************************************************************************)
(* SpecGen: one invocation of one of the three handlers, the call to the   *)
(* service returning a text (possibly empty) or raising.                   *)
(***************************************************************************)
GenOutcomes ==
    {Raises("AccessDeniedException: not authorized to invoke the model"),
     Raises("ThrottlingException"), Raises("ReadTimeoutError"),
     Returns(""), Returns("## Executive Summary\nThe import completed."),
     Returns("Narrative")}

GenMetrics ==
    {[run_id |-> "r1", invalid_objects_before |-> Some(n), invalid_objects_after |-> Some(0),
      ora_errors |-> errs,
      signals |-> [invalid_objects_detected |-> Some(n), orders_count |-> Some(50000),
                   invalid_objects_sample |-> "[]", ora_errors_sample |-> errs]] :
        n \in {0, 1}, errs \in {<< >>, <<"ORA-39082", "ORA-06512">>}}

GenEvents ==
    {[handler |-> h, run_id |-> r, model_id |-> None] :
        h \in {"app", "deploy"}, r \in {None, Some("r1")}}
        \cup {[handler |-> "bedrock_generate", run_id |-> None, model_id |-> m] :
                m \in {None, Some("anthropic.claude-3-haiku")}}

InitGen ==
    /\ pc = "generate"
    /\ event \in {Some(e) : e \in GenEvents}
    /\ metrics \in {Some(m) : m \in GenMetrics}
                      \cup (IF Val(event).handler = "deploy" THEN {} ELSE {None})
    /\ store \in {[generated |-> g, report_doc |-> None] : g \in GenOutcomes}
    /\ fault = "none" /\ trigger = None
    /\ compile_warnings = << >> /\ evidence_excerpts = << >> /\ summary = None
    /\ ops = << >> /\ result = None /\ invocation = 1
    /\ Load(<< >>, [lr |-> None, n |-> 0], None)
    /\ IdlePick
    /\ IdleMono

NextGen == AppHandler \/ DeployHandler \/ BedrockGenerateHandler

SpecGen == InitGen /\ [][NextGen]_vars

(***************************************************************************)
(* Vocabulary of the properties                                            *)
(***************************************************************************)
ImportFound == impdp_lr # None /\ impdp_lr[1].found
ImportKeys == IF ImportFound THEN DOMAIN impdp_lr[1].ora_counts ELSE {}
ImportState == IF ImportFound THEN impdp_lr[1].dp_state ELSE "NONE"
ImportHasFatal == ImportKeys \cap {"ORA-39000", "ORA-31640", "ORA-27037"} # {}
ExportLog == log_results[2]
ExportFound == ExportLog.found
Classified == pc \in {"classified", "scored"}
Scored == pc = "scored"

RECURSIVE SumWeights(_)
SumWeights(fs) == IF fs = << >> THEN 0 ELSE Head(fs).weight + SumWeights(Tail(fs))

NameCount(fs, name) == Cardinality({i \in 1..Len(fs) : fs[i].factor = name})

FactorNames == DOMAIN RISK_WEIGHTS

\* C1: the status is FAIL exactly when the selected import log is found and
\* holds ORA-39000, ORA-31640 or ORA-27037, whatever the completion states,
\* the export log, the validation status and the attempt count.
C1_FailIffFatal == Classified => (overall_status = Some("FAIL") <=> ImportHasFatal)

C1_Witness ==
    /\ pc = "classified" /\ overall_status = Some("FAIL")
    /\ ImportKeys = {"ORA-27037"} /\ ImportState = "SUCCESS"
    /\ ExportFound /\ ExportLog.dp_state = "SUCCESS" /\ validation.status = "PASS"
    /\ impdp_log_count = 1

\* C2: the status is PASS exactly when the import log is found with state
\* SUCCESS and no fatal code, the export log is found with state SUCCESS and
\* the validation status is PASS.
C2_PassIff ==
    Classified =>
        (overall_status = Some("PASS") <=>
            /\ ImportFound /\ ImportState = "SUCCESS" /\ ~ImportHasFatal
            /\ ExportFound /\ ExportLog.dp_state = "SUCCESS"
            /\ validation.status = "PASS")

C2_Witness ==
    /\ pc = "classified" /\ overall_status = Some("PASS")
    /\ ImportKeys = {"ORA-39082", "ORA-06512"} /\ impdp_log_count = 2

\* C3: the status is the one of the first applicable rule of the decision
\* list, one of FAIL, WARN, PASS, and the generic "not definitive" reason is
\* given only by the last rule, as the last reason.
C3_Rule ==
    IF ImportHasFatal THEN 1
    ELSE IF ImportFound /\ ImportState = "COMPLETED_WITH_ERRORS" THEN 2
    ELSE IF ExportFound /\ ExportLog.dp_state = "COMPLETED_WITH_ERRORS" THEN 3
    ELSE IF /\ ImportFound /\ ImportState = "SUCCESS"
            /\ ExportFound /\ ExportLog.dp_state = "SUCCESS"
            /\ validation.status = "PASS" THEN 4
    ELSE 5

C3_DecisionList ==
    Classified =>
        /\ overall_status \in {Some("FAIL"), Some("WARN"), Some("PASS")}
        /\ overall_status =
             Some(CASE C3_Rule = 1 -> "FAIL" [] C3_Rule = 4 -> "PASS" [] OTHER -> "WARN")
        /\ \A i \in 1..Len(status_reasons) :
             status_reasons[i] = NotDefinitive => C3_Rule = 5 /\ i = Len(status_reasons)
        /\ C3_Rule = 5 =>
             /\ status_reasons # << >>
             /\ status_reasons[Len(status_reasons)] = NotDefinitive

\* the end-to-end scenario of the design: import succeeded, export completed
\* with 2 errors, one invalid object, row count present
C3_Witness ==
    /\ pc = "classified" /\ overall_status = Some("WARN") /\ C3_Rule = 3
    /\ ImportState = "SUCCESS" /\ ExportLog.dp_error_count = Some(2)
    /\ validation.invalid_objects_count = Some(1) /\ validation.status = "WARN"
    /\ validation.orders_count = Some(50000)
    /\ status_reasons = <<ValidationWarn, ExpdpErrors>>

\* C4 as stated: among the inputs an invocation can be given, some have a
\* fatal code in the selected import log, status FAIL, and a score in the LOW
\* range (below 35).
C4_FailWithLowScore ==
    pc \in {"inputs", "classified", "scored"} =>
        \E pre \in BOOLEAN, post \in BOOLEAN, e \in ExpdpResults,
           sel \in ImpdpSelections, v \in Validations :
            LET results == LogResults(pre, e, post)
            IN /\ has_fatal(sel.lr)
               /\ _classify_status(expdp_of(results), sel.lr, v, sel.n).status = "FAIL"
               /\ _risk_score(results, sel.lr, sel.n, expdp_of(results), v).score < 35

\* C4 amended: a fatal code in the selected import log forces FAIL and a score
\* of at least 50, so the level is MEDIUM or HIGH and never LOW; status and
\* level disagree no further than FAIL with MEDIUM.
C4_FailScoreAtLeast50 ==
    (Scored /\ ImportHasFatal) =>
        /\ overall_status = Some("FAIL")
        /\ risk_score_value[1] >= 50
        /\ risk_level \in {Some("MEDIUM"), Some("HIGH")}

C4_Witness ==
    /\ Scored /\ ImportHasFatal /\ overall_status = Some("FAIL")
    /\ risk_score_value = Some(50) /\ risk_level = Some("MEDIUM")

\* C5: the score is an integer in 0..100 equal to min(100, sum of the weights
\* of the returned factors), every factor carries the RISK_WEIGHTS value of
\* its name, and the factors are in evaluation order, missing_required_log
\* once per missing log.
C5_Rank(name) ==
    CASE name = "missing_required_log" -> 1
      [] name = "missing_impdp_log" -> 2
      [] name = "impdp_retry_present" -> 3
      [] name \in {"fatal_ora_present", "warn_ora_present"} -> 4
      [] name = "dp_completion_marker_missing" -> 5
      [] name = "expdp_completed_with_errors" -> 6
      [] name = "validation_invalid_objects_present" -> 7
      [] name = "validation_orders_count_missing" -> 8

C5_ScoreIsCappedSum ==
    Scored =>
        LET sum == SumWeights(risk_factors)
        IN /\ risk_score_value[1] \in 0..100
           /\ risk_score_value[1] = IF sum < 100 THEN sum ELSE 100
           /\ \A i \in 1..Len(risk_factors) :
                /\ risk_factors[i].factor \in FactorNames
                /\ risk_factors[i].weight = RISK_WEIGHTS[risk_factors[i].factor]
           /\ \A i \in 1..Len(risk_factors) - 1 :
                \/ C5_Rank(risk_factors[i].factor) < C5_Rank(risk_factors[i + 1].factor)
                \/ /\ risk_factors[i].factor = "missing_required_log"
                   /\ risk_factors[i + 1].factor = "missing_required_log"
           /\ NameCount(risk_factors, "missing_required_log")
                = Cardinality({i \in 1..Len(log_results) : ~log_results[i].found})

C5_Witness ==
    /\ Scored /\ SumWeights(risk_factors) > 100 /\ risk_score_value = Some(100)
    /\ NameCount(risk_factors, "missing_required_log") = 2
    /\ Len(risk_factors) = 7

\* C7: the level is HIGH exactly when score >= 70, MEDIUM exactly when
\* 35 <= score < 70, LOW exactly when score < 35.
C7_LevelFromScore ==
    Scored =>
        /\ (risk_level = Some("HIGH") <=> risk_score_value[1] >= 70)
        /\ (risk_level = Some("MEDIUM")
              <=> (risk_score_value[1] >= 35 /\ risk_score_value[1] < 70))
        /\ (risk_level = Some("LOW") <=> risk_score_value[1] < 35)

C7_Witness == Scored /\ risk_score_value = Some(35) /\ risk_level = Some("MEDIUM")

\* C8: with a fatal code in the import log, fatal_ora_present fires once and
\* neither warn_ora_present nor dp_completion_marker_missing fires; without
\* one, warn_ora_present fires iff a warning code is present and
\* dp_completion_marker_missing iff the import log is found with state NONE;
\* fatal_ora_present and warn_ora_present never both appear.
C8_FatalExcludesWarnAndMarker ==
    Scored =>
        LET n(name) == NameCount(risk_factors, name)
        IN /\ ImportHasFatal =>
                /\ n("fatal_ora_present") = 1
                /\ n("warn_ora_present") = 0
                /\ n("dp_completion_marker_missing") = 0
           /\ ~ImportHasFatal =>
                /\ n("fatal_ora_present") = 0
                /\ n("warn_ora_present") = (IF ImportKeys \cap WARN_ORA # {} THEN 1 ELSE 0)
                /\ n("dp_completion_marker_missing")
                     = (IF ImportFound /\ ImportState = "NONE" THEN 1 ELSE 0)
           /\ ~(n("fatal_ora_present") > 0 /\ n("warn_ora_present") > 0)

C8_Witness ==
    /\ Scored /\ ImportHasFatal /\ "ORA-39082" \in ImportKeys /\ ImportState = "NONE"
    /\ NameCount(risk_factors, "fatal_ora_present") = 1

\* C6: if every factor triggered by one input is triggered, at least as many
\* times, by the other, the first score is not above the second; and no
\* score is above 100.
FactorsIncluded(fs, gs) ==
    \A name \in FactorNames : NameCount(fs, name) <= NameCount(gs, name)

C6_MonotoneAndClamped ==
    pc = "compared" =>
        /\ FactorsIncluded(risk_factors, alt_risk[1].factors)
             => risk_score_value[1] <= alt_risk[1].score
        /\ FactorsIncluded(alt_risk[1].factors, risk_factors)
             => alt_risk[1].score <= risk_score_value[1]
        /\ risk_score_value[1] <= 100
        /\ alt_risk[1].score <= 100

\* a strictly larger factor list whose weights sum to more than 100
C6_Witness ==
    /\ pc = "compared"
    /\ FactorsIncluded(risk_factors, alt_risk[1].factors)
    /\ Len(risk_factors) < Len(alt_risk[1].factors)
    /\ risk_score_value[1] < alt_risk[1].score
    /\ SumWeights(alt_risk[1].factors) > 100
    /\ alt_risk[1].score = 100

\* the candidates of the listing, by position, and their retry numbers
CandidateIdx == {i \in 1..Len(objs) : is_candidate(objs[i].Key)}
RetryOf == [i \in CandidateIdx |-> _impdp_retry_number(BaseName(objs[i].Key))]
Picked == pc = "picked" /\ pick[1].count > 0

\* C9: of a non-empty candidate set the selector returns a candidate with the
\* greatest retry number and, among those, the greatest last-modified time;
\* the attempt count is the number of candidates.
C9_SelectsMaxRetryThenLatest ==
    pc = "picked" =>
        LET idx == CandidateIdx
            rn == RetryOf
        IN /\ pick[1].count = Cardinality(idx)
           /\ idx # {} =>
                \E i \in idx :
                    /\ Some(objs[i].Key) = pick[1].key
                    /\ \A j \in idx : rn[j] <= rn[i]
                    /\ \A j \in idx :
                         rn[j] = rn[i] => objs[j].LastModified <= objs[i].LastModified

\* the selected attempt is neither the latest object nor the only one with
\* its retry number
C9_Witness ==
    /\ Picked /\ pick[1].count = 3 /\ pick[1].key = Some(KEY_OLD_RETRY01)
    /\ LET idx == CandidateIdx
           rn == RetryOf
       IN \E i \in idx :
            /\ objs[i].Key = KEY_OLD_RETRY01
            /\ \E j \in idx : rn[j] < rn[i] /\ objs[j].LastModified > objs[i].LastModified
            /\ \E j \in idx : rn[j] = rn[i] /\ objs[j].LastModified < objs[i].LastModified

\* C10: the reason is "lastmodified" exactly when the greatest retry number
\* is 0, and the selected candidate is the greatest under
\* (retry number, last modified) whichever reason is reported.
C10_ReasonIsReportingOnly ==
    Picked =>
        LET idx == CandidateIdx
            rn == RetryOf
            top == CHOOSE m \in {rn[i] : i \in idx} : \A j \in idx : rn[j] <= m
            sel == {i \in idx : Some(objs[i].Key) = pick[1].key}
        IN /\ pick[1].selection_reason =
                (IF top = 0 THEN "lastmodified"
                 ELSE "filename_retry_number_then_lastmodified")
           /\ pick[1].selection_reason = "lastmodified" =>
                \E i \in sel :
                    \A j \in idx : objs[j].LastModified <= objs[i].LastModified
           /\ \E i \in sel : \A j \in idx :
                \/ rn[j] < rn[i]
                \/ rn[j] = rn[i] /\ objs[j].LastModified <= objs[i].LastModified

C10_Witness ==
    /\ Picked /\ pick[1].selection_reason = "filename_retry_number_then_lastmodified"
    /\ pick[1].key = Some(KEY_RETRY) /\ pick[1].count = 2
    /\ \E j \in 1..Len(objs) : objs[j].Key = KEY_A /\ objs[j].LastModified > 1

\* the listings that hold the objects of objs in another order
Reorderings ==
    LET n == Len(objs)
    IN {[i \in 1..n |-> objs[p[i]]] :
            p \in {q \in [1..n -> 1..n] : \A i, j \in 1..n : q[i] = q[j] => i = j}}

\* the key that lines 229-257 select from a listing with a candidate
SelectedFrom(listing) ==
    LET sorted == sort_candidates(filter_candidates(listing))
    IN Some(sorted[Len(sorted)].obj.Key)

\* two candidates with the greatest retry number have the same last-modified
\* time, the latest among them
TiedAtTheTop ==
    LET idx == CandidateIdx
        rn == RetryOf
    IN \E i, j \in idx :
        /\ i # j /\ rn[i] = rn[j] /\ objs[i].LastModified = objs[j].LastModified
        /\ \A k \in idx : rn[k] < rn[i]
                            \/ (rn[k] = rn[i] /\ objs[k].LastModified <= objs[i].LastModified)

\* C24: the key that _pick_best_impdp_log selects is the same for every
\* listing that holds the same objects in another order, also when two
\* candidates have both the greatest retry number and the same last-modified
\* time.
C24_SelectionIgnoresListingOrder ==
    Picked => \A l \in Reorderings : SelectedFrom(l) = pick[1].key

\* the same for the listings without a tie at the top
C24_OrderMattersOnlyInATie ==
    Picked /\ ~TiedAtTheTop => \A l \in Reorderings : SelectedFrom(l) = pick[1].key

\* the retry numbers of the listed names
RetryNumbersOfListedKeys ==
    /\ _impdp_retry_number(BaseName(KEY_A)) = 0
    /\ _impdp_retry_number(BaseName(KEY_RETRY)) = 1
    /\ _impdp_retry_number(BaseName(KEY_OLD_RETRY01)) = 1
    /\ _impdp_retry_number(BaseName(KEY_EXPDP)) = 9
    /\ BaseName(KEY_OLD_RETRY01) = SubSeq(KEY_OLD_RETRY01, 5, Len(KEY_OLD_RETRY01))
    /\ is_candidate(KEY_OLD_RETRY01) /\ ~is_candidate(KEY_EXPDP)

(***************************************************************************)
(* Properties of the text extractors and of the handler                    *)
(***************************************************************************)
ExportText == Val(store.blobs[ALLOWLIST_RELATIVE_KEYS[2]])
Analyzed == pc = "pick" /\ store.blobs[ALLOWLIST_RELATIVE_KEYS[2]] # None
SuccessThenErrors == "Job successfully completed at 10:02\nJob completed with 3 error(s)"

\* C14: the completion state and error count of a log text are those of the
\* first pattern that occurs in it, in the order "successfully completed"
\* (SUCCESS, 0), "completed with N error" (COMPLETED_WITH_ERRORS, N),
\* "completed with error" (COMPLETED_WITH_ERRORS, unknown), "completed"
\* (COMPLETED, unknown), and otherwise (NONE, unknown); a text with
\* "successfully completed" and "completed with 3 errors" gives (SUCCESS, 0); a
\* known count comes only with SUCCESS (and is 0) or COMPLETED_WITH_ERRORS.
C14_FirstPatternWins ==
    Analyzed =>
        LET t == ExportText
            r == <<log_results[2].dp_state, log_results[2].dp_error_count>>
            m1 == DP_SUCCESS_RE(t) # {}
            m2 == DP_COMPLETED_WITH_ERRORS_RE(t) # {}
            m3 == DP_COMPLETED_WITH_ERRORS_RE2(t) # {}
            m4 == DP_COMPLETED_RE(t) # {}
        IN /\ m1 => r = <<"SUCCESS", Some(0)>>
           /\ ~m1 /\ m2 =>
                /\ r[1] = "COMPLETED_WITH_ERRORS"
                /\ r[2] = Some(int(CompletedWithN(t, Leftmost(DP_COMPLETED_WITH_ERRORS_RE(t)))[1]))
           /\ ~m1 /\ ~m2 /\ m3 => r = <<"COMPLETED_WITH_ERRORS", None>>
           /\ ~m1 /\ ~m2 /\ ~m3 /\ m4 => r = <<"COMPLETED", None>>
           /\ ~m1 /\ ~m2 /\ ~m3 /\ ~m4 => r = <<"NONE", None>>
           /\ t = "Job completed with 3 error(s)" => r = <<"COMPLETED_WITH_ERRORS", Some(3)>>
           /\ t = SuccessThenErrors => r = <<"SUCCESS", Some(0)>>
           /\ r[2] # None =>
                \/ r = <<"SUCCESS", Some(0)>>
                \/ r[1] = "COMPLETED_WITH_ERRORS"

C14_Witness ==
    /\ Analyzed /\ ExportText = SuccessThenErrors
    /\ DP_COMPLETED_WITH_ERRORS_RE(ExportText) # {}
    /\ log_results[2].dp_state = "SUCCESS" /\ log_results[2].dp_error_count = Some(0)

InvalidProof == store.blobs[INVALID_OBJECT_PROOF_REL]
OrdersProof == store.blobs[ORDERS_COUNT_PROOF_REL]
Validated == pc = "assess"

\* C12: the validation status depends on the invalid-object count and on
\* the row count only: it is UNKNOWN when the count is null, WARN when the
\* count is positive, WARN when the count is 0 and the row count is null, and
\* PASS when the count is 0 and the row count is present.
C12_StatusFromCounts ==
    Validated =>
        LET c == validation.invalid_objects_count
            n == validation.orders_count
        IN /\ c = None => validation.status = "UNKNOWN"
           /\ c # None /\ c[1] > 0 => validation.status = "WARN"
           /\ c = Some(0) /\ n = None => validation.status = "WARN"
           /\ c = Some(0) /\ n # None => validation.status = "PASS"

C12_Witness ==
    /\ Validated /\ validation.invalid_objects_count = Some(0)
    /\ OrdersProof = Some("12 34") /\ validation.orders_count = None
    /\ validation.status = "WARN"

\* a data row of the invalid-object table whose status is INVALID: a line
\* that is not blank, whose first field is not OWNER, that is not made of
\* dashes and spaces only, and whose fourth field is INVALID in any case
HasInvalidRow(text) ==
    \E i \in 1..Len(splitlines(text)) :
        LET s == strip(splitlines(text)[i])
            parts == split_2_spaces(s, 1, 1)
        IN /\ s # ""
           /\ ~(Len(parts[1]) = Len("owner") /\ MatchCI(parts[1], 1, "owner"))
           /\ \E k \in 1..Len(s) : Ch(s, k) \notin {"-", " "}
           /\ Len(parts) >= 4 /\ is_invalid(parts[4])

\* C13: the invalid-object count is null exactly when the proof is absent
\* or empty, is an integer >= 0 when the proof has text, is 0 only when text
\* was supplied and no row of it has status INVALID, and a null count never
\* gives validation status PASS.
C13_NullIsNotZero ==
    Validated =>
        LET c == validation.invalid_objects_count
        IN /\ c = None <=> (InvalidProof = None \/ InvalidProof = Some(""))
           /\ c # None => c[1] >= 0
           /\ c = Some(0) => InvalidProof # None /\ ~HasInvalidRow(InvalidProof[1])
           /\ c = None => validation.status # "PASS"

\* the number of places of text where code stands as a whole word, in any case
Occurrences(text, code) ==
    Cardinality({i \in 1..Len(text) :
                    /\ i + Len(code) - 1 <= Len(text)
                    /\ upper(SubSeq(text, i, i + Len(code) - 1)) = code
                    /\ Boundary(text, i) /\ Boundary(text, i + Len(code))})

\* "ORA-" followed by five digits
IsOraCode(k) ==
    /\ Len(k) = Len("ORA-00000") /\ SubSeq(k, 1, Len("ORA-")) = "ORA-"
    /\ \A i \in Len("ORA-") + 1..Len(k) : Ch(k, i) \in Digits

RECURSIVE SumOver(_, _)
SumOver(m, keys) ==
    IF keys = {} THEN 0
    ELSE LET k == CHOOSE x \in keys : TRUE IN m[k] + SumOver(m, keys \ {k})

MixedCaseCodes == "ora-39000 and Ora-31640, ORA-39000"

\* C21: the error-code mapping of a text has as keys exactly the upper-cased
\* codes ORA-ddddd that occur in the text as whole words in any case, the
\* value of a code is the number of its occurrences, the values sum to the
\* number of matches, and the mapping is empty when nothing matches (and for
\* an empty or absent text).
C21_OraCountsExact ==
    Analyzed =>
        LET t == ExportText
            m == log_results[2].ora_counts
        IN /\ \A k \in DOMAIN m : IsOraCode(k) /\ m[k] >= 1 /\ m[k] = Occurrences(t, k)
           /\ \A i \in 1..Len(t) :
                (/\ i + Len("ORA-00000") - 1 <= Len(t)
                 /\ IsOraCode(upper(SubSeq(t, i, i + Len("ORA-00000") - 1)))
                 /\ Boundary(t, i) /\ Boundary(t, i + Len("ORA-00000")))
                    => upper(SubSeq(t, i, i + Len("ORA-00000") - 1)) \in DOMAIN m
           /\ SumOver(m, DOMAIN m) = Cardinality(ORA_RE(t))
           /\ ORA_RE(t) = {} => m = EmptyCounts
           /\ t = "" => m = EmptyCounts
           /\ t = MixedCaseCodes => DOMAIN m = {"ORA-39000", "ORA-31640"}
                                    /\ m["ORA-39000"] = 2 /\ m["ORA-31640"] = 1
           /\ \A j \in {1, 3} : ~log_results[j].found /\ log_results[j].ora_counts = EmptyCounts

C21_Witness ==
    /\ Analyzed /\ ExportText = MixedCaseCodes \o "\n" \o "oRa-31640"
    /\ DOMAIN log_results[2].ora_counts = {"ORA-39000", "ORA-31640"}
    /\ log_results[2].ora_counts["ORA-31640"] = 2

\* the lines of text that are data rows with status INVALID: not blank,
\* first field other than OWNER, not made of dashes and spaces only, at
\* least 4 fields, the fourth INVALID in any case
InvalidDataRows(text) ==
    LET lines == splitlines(text)
    IN {i \in 1..Len(lines) :
            LET s == strip(lines[i])
                parts == split_2_spaces(s, 1, 1)
            IN /\ s # ""
               /\ ~(Len(parts[1]) = Len("owner") /\ MatchCI(parts[1], 1, "owner"))
               /\ \E k \in 1..Len(s) : Ch(s, k) \notin {"-", " "}
               /\ Len(parts) >= 4 /\ is_invalid(parts[4])}

\* the k-th element of a set of line numbers, in increasing order
Nth(rows, k) == CHOOSE i \in rows : Cardinality({j \in rows : j < i}) = k - 1

\* the sample holds the first rows, in the order of the text, capped at 20
SampleIsPrefixOfRows(text, sample, rows) ==
    /\ Len(sample) = (IF Cardinality(rows) < 20 THEN Cardinality(rows) ELSE 20)
    /\ \A k \in 1..Len(sample) :
            LET parts == split_2_spaces(strip(splitlines(text)[Nth(rows, k)]), 1, 1)
            IN sample[k] = [owner |-> parts[1], object_name |-> parts[2],
                            object_type |-> parts[3], status |-> parts[4]]

\* C22: the invalid-object count is the number of data rows of at least 4
\* fields whose status is INVALID in any case, where only blank lines, lines
\* whose first token is OWNER and lines of dashes and spaces are skipped; the
\* sample is the first min(count, 20) of these rows in the order of the
\* text, so it never has more than 20 entries while the count is not capped.
C22_CountAllSampleTwenty ==
    Validated /\ InvalidProof # None /\ InvalidProof # Some("") =>
        LET rows == InvalidDataRows(InvalidProof[1])
        IN /\ validation.invalid_objects_count = Some(Cardinality(rows))
           /\ Len(validation.invalid_objects_sample) <= 20
           /\ SampleIsPrefixOfRows(InvalidProof[1], validation.invalid_objects_sample, rows)

\* the same with the rows that line 331 lets through: first characters
\* other than OWNER
C22_CountOfRowsNotStartingWithOwner ==
    Validated /\ InvalidProof # None /\ InvalidProof # Some("") =>
        LET lines == splitlines(InvalidProof[1])
            rows == {i \in InvalidDataRows(InvalidProof[1]) :
                        ~MatchCI(strip(lines[i]), 1, "owner")}
        IN /\ validation.invalid_objects_count = Some(Cardinality(rows))
           /\ Len(validation.invalid_objects_sample) <= 20
           /\ SampleIsPrefixOfRows(InvalidProof[1], validation.invalid_objects_sample, rows)

C22_LongProofCounted ==
    /\ Validated /\ InvalidProof = Some(LongProof)
    /\ validation.invalid_objects_count = Some(MaxRows)
    /\ Len(validation.invalid_objects_sample) = 20

\* the word (in upper case) occurs in the line, in any case
Occurs(line, word) ==
    \E j \in 1..Len(line) - Len(word) + 1 :
        \A k \in 1..Len(word) : lower(Ch(line, j + k - 1)) = lower(Ch(word, k))

Extracted == pc = "extracted"

RECURSIVE TotalLines(_)
TotalLines(excerpts) ==
    IF excerpts = << >> THEN 0 ELSE Len(Head(excerpts)[2]) + TotalLines(Tail(excerpts))

Min(a, b) == IF a < b THEN a ELSE b
Max(a, b) == IF a < b THEN b ELSE a

\* the number of the first line that holds the word in any case, or 0
FirstLineWith(lines, word) ==
    LET hits == {i \in 1..Len(lines) : Occurs(lines[i], word)}
    IN IF hits = {} THEN 0 ELSE CHOOSE i \in hits : \A j \in hits : i <= j

\* for each code of the list, upper-cased, the first line that holds it
RECURSIVE FirstLines(_, _)
FirstLines(lines, codes) ==
    IF codes = << >> THEN << >>
    ELSE <<<<upper(Head(codes)), FirstLineWith(lines, Head(codes))>>>>
            \o FirstLines(lines, Tail(codes))

\* the lines spent after each code of the list: a code that is found takes
\* its window (c lines on each side, clipped at both ends of the text) or
\* what remains of the budget B, another code takes nothing
RECURSIVE Spent(_, _, _, _, _)
Spent(firsts, nlines, c, B, before) ==
    IF firsts = << >> THEN << >>
    ELSE LET f == Head(firsts)[2]
             w == Min(nlines, f + c) - Max(1, f - c) + 1
             after == IF f = 0 THEN before ELSE before + Min(w, Max(0, B - before))
         IN <<after>> \o Spent(Tail(firsts), nlines, c, B, after)

\* C23: the chunks returned by _extract_excerpts have at most B lines in
\* total; each chunk is a run of consecutive lines of the text that starts
\* c lines before the first line holding its code (or at the first line of
\* the text), ends at most c lines after it (or at the last line), and is cut
\* to what remained of the budget; a code that is not in the text takes no
\* budget and does not stop the later codes; a code reached when the budget
\* is used up gets no entry.  (The entries are one per code; what each code
\* of the list takes is stated for lists without a repeated code.)
C23_ExcerptsWithinBudget ==
    Extracted =>
        LET a == Val(args)
            r == evidence_excerpts
            c == a.context_lines
            B == a.max_total_lines
            lines == splitlines(a.text)
            n == Len(a.codes)
            firsts == FirstLines(lines, a.codes)
            spent == <<0>> \o Spent(firsts, Len(lines), c, B, 0)
            from(k) == Max(1, firsts[k][2] - c)
            to(k) == Min(Len(lines), firsts[k][2] + c)
            distinct == \A i, j \in 1..n : firsts[i][1] = firsts[j][1] => i = j
        IN /\ TotalLines(r) <= B
           /\ \A i, j \in 1..Len(r) : r[i][1] = r[j][1] => i = j
           /\ \A i \in 1..Len(r) :
                \E k \in 1..n :
                    /\ r[i][1] = firsts[k][1]
                    /\ firsts[k][2] > 0
                    /\ Len(r[i][2]) >= 1
                    /\ Len(r[i][2]) <= 2 * c + 1
                    /\ from(k) + Len(r[i][2]) - 1 <= to(k)
                    /\ r[i][2] = SubSeq(lines, from(k), from(k) + Len(r[i][2]) - 1)
           /\ distinct =>
                /\ \A k \in 1..n :
                        LET e == {i \in 1..Len(r) : r[i][1] = firsts[k][1]}
                        IN /\ (e # {}) <=> (firsts[k][2] > 0 /\ spent[k] < B)
                           /\ \A i \in e :
                                Len(r[i][2]) = Min(to(k) - from(k) + 1, B - spent[k])
                           /\ firsts[k][2] = 0 => spent[k + 1] = spent[k]
                /\ TotalLines(r) = spent[n + 1]
                /\ \A i, j \in 1..Len(r) :
                        i < j => \E k, l \in 1..n :
                                    k < l /\ r[i][1] = firsts[k][1] /\ r[j][1] = firsts[l][1]

\* an absent code first, then a code whose window of 3 lines takes the
\* whole budget of 2
C23_Witness ==
    /\ Extracted
    /\ Val(args).codes = <<"ORA-00001", "ora-31640">>
    /\ Val(args).context_lines = 1 /\ Val(args).max_total_lines = 2
    /\ evidence_excerpts = <<<<"ORA-31640", <<"l4", "l5 ora-31640">>>>>>

\* a second code reached with the budget used up
C23_BudgetUsedUp ==
    /\ Extracted
    /\ Val(args).codes = <<"ORA-39000", "ora-31640">>
    /\ Val(args).context_lines = 2 /\ Val(args).max_total_lines = 4
    /\ evidence_excerpts = <<<<"ORA-39000", <<"l1", "l2 ORA-39000", "l3", "l4">>>>>>

(***************************************************************************)
(* Vocabulary of the handler's properties                                  *)
(***************************************************************************)
\* the storage calls of the current invocation
InvocationOps ==
    LET marks == {i \in 1..Len(ops) : ops[i].op = "invoke"}
    IN SubSeq(ops, (IF marks = {} THEN 0 ELSE CHOOSE i \in marks : \A j \in marks : j <= i) + 1,
              Len(ops))

IsPut(c) == c.op = "put"
Puts(calls) == SelectSeq(calls, IsPut)

\* the event has one of the two shapes
HasS3Shape == Val(event).is_dict /\ Val(event).Records # None
HasManualShape ==
    Val(event).is_dict /\ Val(event).bucket # "" /\ Val(event).key # ""
\* the trigger key the event designates
EventKey ==
    IF HasS3Shape THEN unquote_plus(Val(Val(event).Records).key) ELSE Val(event).key
EventSupported ==
    /\ \/ HasS3Shape /\ Val(Val(event).Records).well_formed
       \/ ~HasS3Shape /\ HasManualShape
    /\ endswith(EventKey, "/00-metadata/metrics.json")

\* the metrics blob is present and is a JSON object, and no call fails for
\* another reason than absence
Nominal ==
    /\ EventSupported /\ fault = "none"
    /\ store.metrics_body # None /\ Val(store.metrics_body).is_dict

NoImportLogListed ==
    \A i \in 1..Len(store.listing) : ~is_candidate(store.listing[i].Key)

AbsentAllowlisted ==
    {i \in 1..Len(ALLOWLIST_RELATIVE_KEYS) : store.blobs[ALLOWLIST_RELATIVE_KEYS[i]] = None}

\* C16: when the event has neither shape, or its trigger key does not end
\* with "/00-metadata/metrics.json", the invocation raises at once: it makes
\* no storage call, and neither the summary nor the report is written.
C16_UnsupportedEventRaisesFirst ==
    ~EventSupported =>
        /\ pc \in {"start", "raised"}
        /\ InvocationOps = << >>
        /\ Puts(ops) = << >>
        /\ store.summary_doc = None /\ store.report_doc = None
        /\ result # None => ~Val(result).ok

C16_Witness ==
    /\ pc = "raised" /\ invocation = 1
    /\ event = Some(ManualEvent(Bucket, "runs/r1/00-metadata/metrics.json.bak"))
    /\ result = Some([ok |-> FALSE, raised |-> "ValueError"])
    /\ ops = << >>

\* the invocation has made the call that fails
StepFailed ==
    \/ /\ Len(InvocationOps) >= 1
       /\ \/ fault = "get_metrics" \/ store.metrics_body = None
          \/ ~Val(store.metrics_body).valid
    \/ fault = "list" /\ \E i \in 1..Len(InvocationOps) : InvocationOps[i].op = "list"
    \/ fault = "put_summary" /\ Len(Puts(InvocationOps)) >= 1
    \/ fault = "put_report" /\ Len(Puts(InvocationOps)) >= 2

\* C19: a result with ok = true exists only once the invocation has put the
\* summary and then the report, as its last two calls, and both are stored;
\* its overall_status, risk_score and selected_impdp_log are those of the
\* stored summary; and when the metrics fetch or parse, the listing or one of
\* the two writes fails, the invocation ends raised, without a success
\* result, and nothing is put after the failing call.
C19_SuccessOnlyWhenComplete ==
    /\ (result # None /\ Val(result).ok) =>
          LET calls == InvocationOps
              n == Len(calls)
              doc == Val(store.summary_doc)[2]
          IN /\ pc = "done"
             /\ n >= 2 /\ Len(Puts(calls)) = 2
             /\ calls[n - 1] = Put(Val(result).sanitized_summary_key,
                                   Val(store.summary_doc))
             /\ calls[n] = Put(Val(result).executive_report_key, Val(store.report_doc))
             /\ Val(result).sanitized_summary_key
                    = Val(trigger).run_prefix \o "00-metadata/sanitized_summary.json"
             /\ Val(result).executive_report_key
                    = Val(trigger).run_prefix \o "05-reports/executive_report.md"
             /\ Val(result).overall_status = doc.overall_status
             /\ Val(result).risk_score = Some(Val(doc.risk).score)
             /\ Val(result).selected_impdp_log = Val(doc.derived).selected_impdp_log
    /\ (fault # "none" \/ store.metrics_body = None \/ ~Val(store.metrics_body).is_dict) =>
          /\ pc \notin {"return", "done"}
          /\ result # None => ~Val(result).ok
          /\ store.report_doc = None
          /\ fault \in {"get_metrics", "list"} \/ store.metrics_body = None
                \/ ~Val(store.metrics_body).is_dict
                => Puts(ops) = << >> /\ store.summary_doc = None
          /\ fault = "put_summary" => store.summary_doc = None
    /\ StepFailed => pc = "raised"

C19_Witness ==
    /\ pc = "done" /\ invocation = 1 /\ Val(result).ok
    /\ Val(result).overall_status = Some("FAIL")
    /\ Val(result).selected_impdp_log = Some("03-migration/impdp_retry.log")
    /\ store.summary_doc # None /\ store.report_doc # None

C11_NoCandidatesIsMissingImport ==
    (Nominal /\ NoImportLogListed) =>
        /\ pc # "raised"
        /\ pick # None =>
              /\ Val(pick).key = None /\ Val(pick).count = 0
              /\ Val(pick).selection_reason = "no_candidates"
        /\ pc \in {"validate", "assess", "put_summary", "put_report", "return", "done"} =>
              impdp_lr = None /\ impdp_log_count = 0
        /\ summary # None =>
              /\ Val(Val(summary).derived).selected_impdp_log = None
              /\ Val(Val(summary).datapump).import.status = "MISSING"
              /\ Val(Val(summary).datapump).import.log = None
              /\ Val(Val(summary).datapump).selection_reason = "no_candidates"
              /\ NameCount(Val(Val(summary).risk).factors, "missing_impdp_log") = 1
        /\ pc = "done" =>
              /\ Val(result).ok /\ Val(result).selected_impdp_log = None
              /\ store.summary_doc = Some(json_dumps(Val(summary)))
              /\ store.report_doc = Some(_render_executive_md(Val(summary)))

C11_Witness ==
    /\ pc = "done" /\ invocation = 1
    /\ store.listing = <<[Key |-> KEY_EXPDP, LastModified |-> 1]>>
    /\ Val(result).ok /\ Val(result).selected_impdp_log = None
    /\ Val(Val(summary).datapump).import.status = "MISSING"

\* C15: with the metrics blob present, whatever the presence of the three
\* allowlisted logs, of the import logs and of the two proofs, and also when
\* the selected import log has gone between the listing and the read, the
\* invocation does not raise and returns ok; each absent allowlisted log is
\* recorded as not found, with no error code and completion state NONE, and
\* gives one missing_required_log factor.
C15_AbsenceNeverRaises ==
    Nominal =>
        /\ pc # "raised"
        /\ result # None => Val(result).ok
        /\ log_results # << >> =>
              \A i \in AbsentAllowlisted :
                  log_results[i] = LogResult(ALLOWLIST_RELATIVE_KEYS[i], FALSE,
                                             EmptyCounts, "NONE", None)
        /\ summary # None =>
              NameCount(Val(Val(summary).risk).factors, "missing_required_log")
                  = Cardinality(AbsentAllowlisted)

\* the findings of the summary: an absent or null entry is the empty list
SummaryFindings ==
    IF "compile_warnings" \in DOMAIN Val(summary) /\ Val(summary).compile_warnings # None
    THEN Val(Val(summary).compile_warnings) ELSE << >>

\* the positions of a one-part line in the report
LinesEqual(report, text) ==
    {i \in 1..Len(report) : Len(report[i]) = 1 /\ report[i] = <<text>>}

\* the lines between the heading at h and the next empty line
SectionAfter(report, h) ==
    SubSeq(report, h + 1,
           (CHOOSE e \in LinesEqual(report, "") :
                e > h /\ \A j \in LinesEqual(report, "") : j > h => e <= j) - 1)

\* C20: the report of every summary has the heading "## Compilation
\* Warnings (ORA-39082)" once; when the summary has no finding (an empty,
\* null or absent list) the section under it is the one line "- None
\* detected."; otherwise it is one line "- TYPE: SCHEMA.NAME" for each of the
\* first 20 findings, in order, and no other line.
C20_CompileWarningsSection ==
    pc = "rendered" =>
        LET report == Val(result).report
            heads == LinesEqual(report, "## Compilation Warnings (ORA-39082)")
            h == CHOOSE i \in heads : TRUE
            section == SectionAfter(report, h)
            F == SummaryFindings
            shown == IF Len(F) < 20 THEN Len(F) ELSE 20
        IN /\ Val(result).ok
           /\ Cardinality(heads) = 1
           /\ F = << >> => section = <<<<"- None detected.">>>>
           /\ F # << >> =>
                /\ Len(section) = shown
                /\ \A i \in 1..shown :
                     section[i] = <<"- " \o (IF "object_type" \in DOMAIN F[i]
                                             THEN F[i].object_type ELSE "None")
                                      \o ": " \o F[i].schema \o "."
                                      \o (IF "object_name" \in DOMAIN F[i]
                                          THEN F[i].object_name ELSE "None")>>
                /\ \A i \in 1..Len(section) : section[i] # <<"- None detected.">>

C20_Witness ==
    /\ pc = "rendered" /\ Len(SummaryFindings) = 21
    /\ "risk" \in DOMAIN Val(summary) /\ Val(summary).risk = None
    /\ LET report == Val(result).report
           h == CHOOSE i \in LinesEqual(report, "## Compilation Warnings (ORA-39082)") : TRUE
       IN /\ Len(SectionAfter(report, h)) = 20
          /\ report[h + 20] = <<"- VIEW: APP.V20">>
          /\ report[h + 21] = <<"">>

\* the invocation got as far as the call to the service, and the call raised
GenerativeCallFailed ==
    /\ pc # "generate" /\ store.generated.raises # ""
    /\ CASE Val(event).handler = "app" -> Val(event).run_id # None /\ metrics # None
         [] Val(event).handler = "deploy" -> Val(event).run_id # None
         [] OTHER -> Val(event).model_id # None /\ metrics # None

\* C17: in each of the three handlers, when the call to the service raises,
\* the invocation still returns a success result with engine "fallback" and
\* has written a report that holds the deterministic fallback report followed
\* by the text of the failure.
C17_GenerativeFailureFallsBack ==
    GenerativeCallFailed =>
        /\ pc = "done"
        /\ "status" \in DOMAIN Val(result) /\ Val(result).status = "success"
        /\ Val(result).engine = "fallback"
        /\ store.report_doc # None
        /\ Puts(ops) # << >> /\ Puts(ops)[Len(Puts(ops))].body = store.report_doc
        /\ \E i \in 1..Len(Val(store.report_doc)) :
             /\ MatchCI(Val(store.report_doc), i, "## executive summary\nthis run ")
             /\ \E j \in (i + 1)..Len(Val(store.report_doc)) :
                  SubSeq(Val(store.report_doc), j, Len(Val(store.report_doc)))
                      \in {"**Bedrock error:** " \o store.generated.raises \o "\n",
                           "**Bedrock error:** " \o store.generated.raises \o "\n\n"}

\* the summary that the bucket holds, as lines 721-727 wrote it
SummaryWritten == store.summary_doc # None
WrittenDoc == Val(store.summary_doc)[2]
WrittenPass == SummaryWritten /\ WrittenDoc.overall_status = Some("PASS")

\* C25: in every summary written with overall_status PASS, the statuses
\* datapump.export.status and datapump.import.status are both PASS.
C25_PassMeansPhasesPass ==
    WrittenPass =>
        /\ Val(WrittenDoc.datapump).export.status = "PASS"
        /\ Val(WrittenDoc.datapump).import.status = "PASS"

\* the same for the import phase alone
C25_PassMeansImportPass ==
    WrittenPass => Val(WrittenDoc.datapump).import.status = "PASS"

\* the export status of a summary written with PASS is PASS or FAIL
C25_ExportPassOrFail ==
    WrittenPass => Val(WrittenDoc.datapump).export.status \in {"PASS", "FAIL"}

\* C26: in every summary written with overall_status PASS the risk score is
\* at most 55 and the level is not HIGH; the only factors are
\* missing_required_log for the precheck log and the post-validation log,
\* impdp_retry_present and warn_ora_present.
C26_PassScoreAtMost55 ==
    WrittenPass =>
        LET risk == Val(WrittenDoc.risk)
        IN /\ risk.score <= 55
           /\ risk.level \in {"LOW", "MEDIUM"}
           /\ \A i \in 1..Len(risk.factors) :
                LET f == risk.factors[i]
                IN /\ f.factor \in {"missing_required_log", "impdp_retry_present",
                                    "warn_ora_present"}
                   /\ f.factor = "missing_required_log" =>
                        f.evidence \in {ALLOWLIST_RELATIVE_KEYS[1],
                                        ALLOWLIST_RELATIVE_KEYS[3]}
           /\ risk.score = SumWeights(risk.factors)

\* PASS with the four factors together: score 55, level MEDIUM
C26_Witness ==
    /\ WrittenPass
    /\ Val(WrittenDoc.risk).score = 55 /\ Val(WrittenDoc.risk).level = "MEDIUM"
    /\ Len(Val(WrittenDoc.risk).factors) = 4

\* the invocation has computed the status and the risk (lines 666-667)
Assessed == pc \in {"put_summary", "put_report", "return", "done"}

\* C27: in every invocation the factor missing_impdp_log is present exactly
\* when the attempt count is 0 and impdp_retry_present exactly when it is
\* greater than 1, so the two never come together; when a candidate was
\* selected, the import LogResult given to _classify_status and _risk_score
\* has found = true.
C27_MissingAndRetryExclusive ==
    Assessed =>
        LET missing == NameCount(risk_factors, "missing_impdp_log")
            retry == NameCount(risk_factors, "impdp_retry_present")
            scored == Val(summary).risk
        IN /\ missing = (IF impdp_log_count = 0 THEN 1 ELSE 0)
           /\ retry = (IF impdp_log_count > 1 THEN 1 ELSE 0)
           /\ ~(missing > 0 /\ retry > 0)
           /\ impdp_log_count = Val(pick).count
           /\ impdp_log_count = Len(filter_candidates(store.listing))
           /\ Val(pick).key # None => impdp_lr # None /\ Val(impdp_lr).found
           /\ Val(pick).key = None <=> impdp_log_count = 0
           /\ Val(scored).factors = risk_factors

\* two attempts, the selected one found: the retry factor alone
C27_Witness ==
    /\ Assessed /\ impdp_log_count = 2
    /\ Val(pick).key = Some(KEY_RETRY) /\ Val(impdp_lr).found
    /\ NameCount(risk_factors, "impdp_retry_present") = 1
    /\ NameCount(risk_factors, "missing_impdp_log") = 0

\* no attempt: the missing factor alone
C27_NoAttempt ==
    /\ Assessed /\ impdp_log_count = 0 /\ impdp_lr = None
    /\ NameCount(risk_factors, "missing_impdp_log") = 1

\* the selected import log has been read and analysed (lines 643-656)
ImportRead ==
    pc \in {"validate", "assess", "put_summary", "put_report", "return", "done"}

\* C28: evidence_excerpts has an entry for the selected import log exactly
\* when that log holds a fatal code; the entry has one excerpt for every
\* fatal code of the log, each the whole window of 1 to 5 lines around the
\* first line that holds the code: at most 3 excerpts and 15 lines, and the
\* budget of 20 lines cuts or skips none.
C28_BudgetDropsNoEvidence ==
    ImportRead =>
        LET fatal == IF impdp_lr = None THEN {}
                     ELSE DOMAIN Val(impdp_lr).ora_counts \cap FATAL_ORA
        IN /\ (evidence_excerpts # << >>) <=> (fatal # {})
           /\ fatal # {} =>
                LET ex == evidence_excerpts[1][2]
                    lines == splitlines(Val(store.impdp_body))
                IN /\ Len(evidence_excerpts) = 1
                   /\ evidence_excerpts[1][1] = Val(impdp_lr).key_rel
                   /\ {ex[i][1] : i \in 1..Len(ex)} = fatal
                   /\ Len(ex) = Cardinality(fatal) /\ Len(ex) <= 3
                   /\ TotalLines(ex) <= 15
                   /\ \A i \in 1..Len(ex) :
                        LET h == FirstLineWith(lines, ex[i][1])
                        IN /\ h > 0
                           /\ Len(ex[i][2]) >= 1 /\ Len(ex[i][2]) <= 5
                           /\ ex[i][2] = SubSeq(lines, Max(1, h - 2), Min(Len(lines), h + 2))
           /\ SummaryWritten /\ pc # "put_summary" =>
                WrittenDoc.evidence_excerpts = Some(evidence_excerpts)

\* the three fatal codes, 15 lines of excerpts
C28_Witness ==
    /\ ImportRead /\ store.impdp_body = Some(ImpdpThreeFatal)
    /\ Len(evidence_excerpts) = 1
    /\ Len(evidence_excerpts[1][2]) = 3
    /\ TotalLines(evidence_excerpts[1][2]) = 15

\* C29: no key that lambda_handler writes passes the suffix test of
\* _derive_run_prefix; the invocation that the notification of a written
\* object starts raises ValueError before any storage call, so it writes
\* nothing and is followed by no further invocation.
C29_OutputsNeverTrigger ==
    /\ \A i \in 1..Len(ops) :
            IsPut(ops[i]) =>
                /\ \/ endswith(ops[i].key, "/" \o SUMMARY_REL)
                   \/ endswith(ops[i].key, "/" \o REPORT_REL)
                /\ ~endswith(ops[i].key, "/00-metadata/metrics.json")
                /\ _derive_run_prefix(ops[i].key) = Raises("ValueError")
    /\ invocation > 1 =>
            /\ pc \in {"start", "raised"}
            /\ InvocationOps = << >>
            /\ WrittenKeys = {}
            /\ pc = "raised" => result = Some([ok |-> FALSE, raised |-> "ValueError"])
    /\ invocation <= 2
    /\ Len(Puts(ops)) <= 2

\* the invocation started by the notification of the summary has raised
C29_Witness ==
    /\ invocation = 2 /\ pc = "raised"
    /\ EventKey = "runs/r1/" \o SUMMARY_REL
    /\ Len(Puts(ops)) = 2 /\ store.report_doc # None

\* the same for the report, under a prefix that ends like a trigger key
C29_ReportNotified ==
    /\ invocation = 2 /\ pc = "raised"
    /\ EventKey = "x/00-metadata/metrics.json/" \o REPORT_REL

====
